---- MODULE Spec2Model ----
(***************************************************************************)
(* ORBIT: organising image files into a dated destination hierarchy.       *)
(*                                                                         *)
(* Text is modelled as a sequence of tokens.  A token is either one of the *)
(* characters the code inspects ("/", ".", "_", a decimal digit) or a run  *)
(* of letters that the code never looks inside ("photo", "jpg").  A path   *)
(* is the sequence of its parts, as pathlib's Path.parts gives them: an    *)
(* absolute path starts with the part <<"/">>.                             *)
(***************************************************************************)
EXTENDS Integers, Sequences, FiniteSets, TLC

VARIABLES
    \* --- datetime selection (exif.py) ---
    selLevel,      \* the configured strictness level
    selExif,       \* the candidate dict handed to extract_datetime
    selResult,     \* what extract_datetime returned: <<>> (None) or <<dt>>
    selPc,         \* "ready" before the call, "done" after it
    \* --- PathGenerator (path_generator.py) ---
    level,         \* PathGenerator.strategy
    disk,          \* the files that exist on disk (set of paths)
    pending,       \* PathGenerator._pending_conflicts: leaf name -> list of <<source, dest_dir>>
    resolved,      \* PathGenerator._resolved_paths: source -> destination
    batch,         \* the list last handed to prepare()
    prepared,      \* whether prepare() has been called
    lastSrc,       \* <<source>> when the last step was a generate() call, else <<>>
    lastExif,      \* metadata argument of the last generate() call
    lastRet,       \* its return value
    lastCached,    \* whether it was answered from _resolved_paths
    firstRet,      \* source -> what generate() first returned for it since prepare()
    \* --- Orbit.execute / FileExecutor / Journal (core.py, executor.py, journal.py) ---
    fs,            \* the files on disk: path -> content
    journalFile,   \* .orbit_journal.jsonl: <<>> when absent, else <<its lines>>;
                   \* a line is [kind, value], see JsonDumps
    sourceDirs,    \* Orbit.source_dirs
    verify,        \* Orbit.verify
    pc,            \* at rest ("idle", "undone", "nothing", "crashed", "loaded",
                   \* "load_raised"), or the executor's / undo's / load's position
    opMode,        \* the mode of the running execute(): "copy" or "move"
    hasJournal,    \* whether the executor was given a Journal (resume)
    entries,       \* Journal.entries of the Journal in use
    already,       \* executor's already_processed
    mappings,      \* sim_result.file_mappings
    idx,           \* position in mappings (from 1)
    processed,     \* executor's processed counter
    skipped,       \* executor's skipped counter
    errors,        \* executor's errors: <<source, error_type>>
    undoIdx,       \* undo's position in entries, going down
    undoResults,   \* undo's result list: <<entry, status>>
    runs,          \* how many execute() calls were started
    faults,        \* how many I/O failures the environment has injected
    \* --- one record per component, [pc |-> "off"] when the component is not in use ---
    dup,           \* duplicate detection and Orbit.simulate under a duplicate policy
    trace,         \* OrbitResult.save_trace / load_trace
    cfg,           \* Orbit.__init__: the arguments and the outcome
    pool           \* Orbit._extract_exif_parallel: the thread pool

selVars  == <<selLevel, selExif, selResult, selPc>>
pathVars == <<level, disk, pending, resolved, batch, prepared,
              lastSrc, lastExif, lastRet, lastCached, firstRet>>
execVars == <<fs, journalFile, sourceDirs, verify, pc, opMode, hasJournal, entries,
              already, mappings, idx, processed, skipped, errors, undoIdx,
              undoResults, runs, faults>>
auxVars == <<dup, trace, cfg, pool>>
vars == <<selVars, pathVars, execVars, auxVars>>

----------------------------------------------------------------------------
(* Generic helpers                                                         *)

None == <<>>
Some(v) == <<v>>

Last(s) == s[Len(s)]
Front(s) == SubSeq(s, 1, Len(s) - 1)

RECURSIVE Reverse(_)
Reverse(s) == IF s = <<>> THEN <<>> ELSE Append(Reverse(Tail(s)), Head(s))

IsPrefix(p, q) == Len(p) <= Len(q) /\ SubSeq(q, 1, Len(p)) = p

\* The decimal digits, as tokens.
DigitTok == <<"0", "1", "2", "3", "4", "5", "6", "7", "8", "9">>
IsDigit(t) == \E i \in 1..10 : DigitTok[i] = t
DigitVal(t) == (CHOOSE i \in 1..10 : DigitTok[i] = t) - 1

\* str(n) for n >= 0
RECURSIVE Str(_)
Str(n) == IF n < 10 THEN <<DigitTok[n + 1]>>
          ELSE Append(Str(n \div 10), DigitTok[(n % 10) + 1])

\* int(s) for a non-empty sequence of digits
RECURSIVE ParseInt(_)
ParseInt(s) == IF Len(s) = 1 THEN DigitVal(s[1])
          ELSE 10 * ParseInt(Front(s)) + DigitVal(Last(s))

\* n printed on at least w digits, zero padded (strftime's %m, %d, %Y)
RECURSIVE Pad(_, _)
Pad(s, w) == IF Len(s) >= w THEN s ELSE Pad(<<"0">> \o s, w)

----------------------------------------------------------------------------
(* pathlib                                                                 *)

\* The parts of a path written as text: split at "/", dropping empty parts
\* and "." parts; a leading "/" is the anchor.
RECURSIVE SplitParts(_, _)
SplitParts(text, cur) ==
    IF text = <<>>
    THEN IF cur = <<>> \/ cur = <<".">> THEN <<>> ELSE <<cur>>
    ELSE IF Head(text) = "/"
         THEN (IF cur = <<>> \/ cur = <<".">> THEN <<>> ELSE <<cur>>)
              \o SplitParts(Tail(text), <<>>)
         ELSE SplitParts(Tail(text), Append(cur, Head(text)))

ParsePath(text) ==
    IF text # <<>> /\ Head(text) = "/"
    THEN <<<<"/">>>> \o SplitParts(text, <<>>)
    ELSE SplitParts(text, <<>>)

\* dir / text
JoinPath(dir, text) ==
    IF text # <<>> /\ Head(text) = "/" THEN ParsePath(text)
    ELSE dir \o SplitParts(text, <<>>)

\* str(path)
RECURSIVE StrTail(_)
StrTail(parts) ==
    IF parts = <<>> THEN <<>>
    ELSE IF Len(parts) = 1 THEN Head(parts)
    ELSE Head(parts) \o <<"/">> \o StrTail(Tail(parts))

StrPath(p) ==
    IF p = <<>> THEN <<".">>
    ELSE IF Head(p) = <<"/">> THEN <<"/">> \o StrTail(Tail(p))
    ELSE StrTail(p)

PathName(p) == IF p = <<>> \/ p = <<<<"/">>>> THEN <<>> ELSE Last(p)
PathParent(p) == IF p = <<>> \/ p = <<<<"/">>>> THEN p ELSE Front(p)

\* Index of the last "." of a name, 0 when there is none
LastIndexOf(name, tok) ==
    IF \E i \in 1..Len(name) : name[i] = tok
    THEN CHOOSE i \in 1..Len(name) :
            name[i] = tok /\ \A j \in (i + 1)..Len(name) : name[j] # tok
    ELSE 0

\* Path.suffix: from the last "." on, unless the name starts or ends with it
PathSuffix(p) ==
    LET name == PathName(p)
        i == LastIndexOf(name, ".")
    IN IF 1 < i /\ i < Len(name) THEN SubSeq(name, i, Len(name)) ELSE <<>>

PathStem(p) ==
    LET name == PathName(p)
        i == LastIndexOf(name, ".")
    IN IF 1 < i /\ i < Len(name) THEN SubSeq(name, 1, i - 1) ELSE name

----------------------------------------------------------------------------
(* Datetime selection strategies                                           *)

Levels == {"strict", "normal", "flexible"}

KeyOriginal == "exif_datetime_original"
KeyImage    == "image_datetime"
KeyFile     == "file_datetime"
ExifKeys == {KeyOriginal, KeyImage, KeyFile}

\* Two capture times.
Date1 == [y |-> 2023, m |-> 7, d |-> 15]
Date2 == [y |-> 2024, m |-> 1, d |-> 5]
Dates == {Date1, Date2}

\* dict.get(key): <<>> for None
Get(dict, key) == IF key \in DOMAIN dict THEN Some(dict[key]) ELSE None

\* Python's "a or b" on optional datetimes (a datetime is always truthy)
Or(a, b) == IF a # None THEN a ELSE b

StrictExtractOrFile(exif) == Or(Get(exif, KeyOriginal), Get(exif, KeyFile))
StrictExtract(exif) == Get(exif, KeyOriginal)

NormalExtract(exif) == Or(Get(exif, KeyOriginal), Get(exif, KeyImage))

FlexibleExtract(exif) ==
    Or(Or(Get(exif, KeyOriginal), Get(exif, KeyImage)), Get(exif, KeyFile))

\* STRATEGIES[mode]().extract_datetime(exif_data)
ExtractDatetime(lv, exif) ==
    CASE lv = "strict"   -> StrictExtract(exif)
      [] lv = "normal"   -> NormalExtract(exif)
      [] lv = "flexible" -> FlexibleExtract(exif)

\* Every candidate dict: any subset of the three keys, each with a date.
AllExif == UNION { [ks -> Dates] : ks \in SUBSET ExifKeys }


----------------------------------------------------------------------------
(* PathGenerator                                                           *)

\* Orbit.destination_dir
DestinationDir == <<<<"dest">>>>

\* The directory pattern, "%Y/%m/%d"
Pattern == <<"%Y", "/", "%m", "/", "%d">>

\* datetime.strftime(pattern)
RECURSIVE Strftime(_, _)
Strftime(pat, dt) ==
    IF pat = <<>> THEN <<>>
    ELSE (CASE Head(pat) = "%Y" -> Pad(Str(dt.y), 4)
            [] Head(pat) = "%m" -> Pad(Str(dt.m), 2)
            [] Head(pat) = "%d" -> Pad(Str(dt.d), 2)
            [] OTHER -> <<Head(pat)>>)
         \o Strftime(Tail(pat), dt)

UnsortedDir == JoinPath(DestinationDir, <<"Unsorted">>)

\* PathGenerator._get_dest_dir
GetDestDir(lv, exif) ==
    LET dt == ExtractDatetime(lv, exif)
    IN IF dt = None THEN UnsortedDir
       ELSE JoinPath(DestinationDir, Strftime(Pattern, dt[1]))

\* Path.exists(): a file of the disk, or a directory above one
Exists(p, dsk) == \E f \in dsk : IsPrefix(p, f)

\* src.parent.parts, reversed: from the immediate parent upward
ParentPartsFromRoot(src) == PathParent(src)
ParentParts(src) == Reverse(PathParent(src))

\* parts[depth] if depth < len(parts) else ""   (depth counted from 0)
ValueAtDepth(parts, depth) ==
    IF depth < Len(parts) THEN parts[depth + 1] ELSE <<>>

\* list.index(x): the first position holding a value equal to x (from 0)
IndexOf(list, x) == (CHOOSE i \in 1..Len(list) :
                        list[i] = x /\ \A j \in 1..(i - 1) : list[j] # x) - 1

\* PathGenerator._find_distinctive_suffix: <<>> for None, else <<segment>>
FindDistinctiveSuffix(current, conflicts) ==
    LET sources == [i \in 1..Len(conflicts) |-> conflicts[i][1]]
        partsLists == [i \in 1..Len(sources) |-> ParentParts(sources[i])]
        currentParts == ParentParts(current)
        found == \E i \in 1..Len(sources) : sources[i] = current
        currentIdx == IndexOf(sources, current)
        Values(depth) == { ValueAtDepth(partsLists[i], depth) :
                             i \in 1..Len(partsLists) }
        differing == { depth \in 0..(Len(currentParts) - 1) :
                         Cardinality(Values(depth)) > 1 }
        \* the second loop: a depth at which some other list differs
        Other(depth) == { i \in 1..Len(partsLists) :
                            /\ IndexOf(partsLists, partsLists[i]) # currentIdx
                            /\ depth < Len(partsLists[i])
                            /\ currentParts[depth + 1] # partsLists[i][depth + 1] }
        fallback == { depth \in 0..(Len(currentParts) - 1) : Other(depth) # {} }
        Min(S) == CHOOSE d \in S : \A e \in S : d <= e
    IN IF Len(sources) <= 1 THEN None
       ELSE IF ~found THEN None
       ELSE IF differing # {} THEN Some(currentParts[Min(differing) + 1])
       ELSE IF fallback # {} THEN Some(currentParts[Min(fallback) + 1])
       ELSE None

\* PathGenerator._resolve_conflict_with_suffix
ResolveConflictWithSuffix(destDir, src, conflicts) ==
    LET suffix == FindDistinctiveSuffix(src, conflicts)
        newName == IF suffix # None /\ suffix[1] # <<>>
                   THEN PathStem(src) \o <<"_">> \o suffix[1] \o PathSuffix(src)
                   ELSE PathStem(src) \o <<"_", "1">> \o PathSuffix(src)
    IN JoinPath(destDir, newName)

\* re.match(r"^(.+)_(\d+)$", stem): <<>> or <<base_stem, digits>>
MatchNumbered(stem) ==
    LET k == LastIndexOf(stem, "_")
    IN IF /\ k > 1
          /\ k < Len(stem)
          /\ \A j \in (k + 1)..Len(stem) : IsDigit(stem[j])
       THEN <<SubSeq(stem, 1, k - 1), SubSeq(stem, k + 1, Len(stem))>>
       ELSE <<>>

\* the "while True" loop of _ensure_unique
RECURSIVE NextFree(_, _, _, _, _)
NextFree(parent, baseStem, suffix, counter, dsk) ==
    LET newPath == JoinPath(parent, baseStem \o <<"_">> \o Str(counter) \o suffix)
    IN IF ~Exists(newPath, dsk) THEN newPath
       ELSE NextFree(parent, baseStem, suffix, counter + 1, dsk)

\* PathGenerator._ensure_unique
EnsureUniqueOnce(destPath, dsk) ==
    IF ~Exists(destPath, dsk) THEN destPath
    ELSE LET stem == PathStem(destPath)
             match == MatchNumbered(stem)
             baseStem == IF match # <<>> THEN match[1] ELSE stem
             start == IF match # <<>> THEN ParseInt(match[2]) + 1 ELSE 1
         IN JoinPath(PathParent(destPath),
                     baseStem \o <<"_">> \o Str(start) \o PathSuffix(destPath))
EnsureUniqueNever(destPath, dsk) == destPath
EnsureUniqueFromOne(destPath, dsk) ==
    IF ~Exists(destPath, dsk) THEN destPath
    ELSE NextFree(PathParent(destPath), PathStem(destPath), PathSuffix(destPath), 1, dsk)
EnsureUnique(destPath, dsk) ==
    IF ~Exists(destPath, dsk) THEN destPath
    ELSE LET stem == PathStem(destPath)
             match == MatchNumbered(stem)
             baseStem == IF match # <<>> THEN match[1] ELSE stem
             start == IF match # <<>> THEN ParseInt(match[2]) + 1 ELSE 1
         IN NextFree(PathParent(destPath), baseStem, PathSuffix(destPath), start, dsk)

\* self._pending_conflicts.get(dest_name, [])
ConflictsOf(pend, name) == IF name \in DOMAIN pend THEN pend[name] ELSE <<>>

\* generate(), past the cache lookup: the path before the on-disk check
ComputedPath(src, exif, lv, pend) ==
    LET destDir == GetDestDir(lv, exif)
        conflicts == ConflictsOf(pend, PathName(src))
    IN IF Len(conflicts) <= 1 THEN JoinPath(destDir, PathName(src))
       ELSE ResolveConflictWithSuffix(destDir, src, conflicts)

\* PathGenerator.generate: the returned path
GenerateResultUncached(src, exif, lv, pend, res, dsk) ==
    EnsureUnique(ComputedPath(src, exif, lv, pend), dsk)
GenerateResult(src, exif, lv, pend, res, dsk) ==
    IF src \in DOMAIN res THEN res[src]
    ELSE EnsureUnique(ComputedPath(src, exif, lv, pend), dsk)


----------------------------------------------------------------------------
(* The files of the model                                                  *)

Photo    == <<"photo", ".", "jpg">>
PhotoX   == <<"photo", "_", "x", ".", "jpg">>
Numbered == <<"_", "1", ".", "jpg">>

\* The scanned files, in scan order: relative and absolute, at several depths
SourceList == <<
    << <<"x">>, Photo >>,                  \* x/photo.jpg
    << <<"y">>, Photo >>,                  \* y/photo.jpg
    << <<"a">>, <<"x">>, Photo >>,         \* a/x/photo.jpg
    << <<"/">>, <<"x">>, Photo >>,         \* /x/photo.jpg
    << <<"y">>, PhotoX >>,                 \* y/photo_x.jpg
    << <<"y">>, Numbered >> >>             \* y/_1.jpg
Sources == { SourceList[i] : i \in 1..Len(SourceList) }

\* The files of the runs that are repeated over a destination that fills up
RerunList == << SourceList[1], SourceList[3], SourceList[6] >>

\* The metadata handed to the path generator
ExifNone == <<>>
ExifFile == [k \in {KeyFile} |-> Date1]
ExifFull == [k \in {KeyOriginal, KeyFile} |-> IF k = KeyOriginal THEN Date2 ELSE Date1]
ExifSet == {ExifNone, ExifFile, ExifFull}

\* ExifExtractor.extract, as scanned: what each file's container holds
ExifOf(src) ==
    IF src = SourceList[4] THEN ExifFile
    ELSE IF src = SourceList[6] THEN ExifFull
    ELSE ExifNone

\* the largest batch handed to prepare()
MaxBatch == 3
\* the largest batch of a repeated run
MaxRerun == 2
\* the most files the destination tree holds
MaxDisk == 2

\* the members of list whose index is in idxs, in list order
RECURSIVE SubList(_, _, _)
SubList(list, idxs, i) ==
    IF i > Len(list) THEN <<>>
    ELSE (IF i \in idxs THEN <<list[i]>> ELSE <<>>) \o SubList(list, idxs, i + 1)

BatchesOf(list, max) ==
    { SubList(list, idxs, 1) :
        idxs \in { I \in SUBSET (1..Len(list)) :
                     Cardinality(I) >= 1 /\ Cardinality(I) <= max } }

EmptyMap == <<>>
MapPut(f, k, v) == [x \in DOMAIN f \cup {k} |-> IF x = k THEN v ELSE f[x]]

----------------------------------------------------------------------------
(* Actions of the path generator                                           *)

Off == [pc |-> "off"]
dupIdle == dup = Off
traceIdle == trace = Off
cfgIdle == cfg = Off
poolIdle == pool = Off
auxIdle == dupIdle /\ traceIdle /\ cfgIdle /\ poolIdle

selIdle == selLevel = "strict" /\ selExif = <<>> /\ selResult = None /\ selPc = "idle"

execIdle ==
    /\ fs = EmptyMap /\ journalFile = None /\ sourceDirs = <<>> /\ verify = FALSE
    /\ pc = "off" /\ opMode = "copy" /\ hasJournal = FALSE /\ entries = <<>>
    /\ already = {} /\ mappings = <<>> /\ idx = 0 /\ processed = 0 /\ skipped = 0
    /\ errors = <<>> /\ undoIdx = 0 /\ undoResults = <<>> /\ runs = 0 /\ faults = 0

InitPath ==
    /\ auxIdle
    /\ level \in Levels
    /\ disk = {}
    /\ pending = EmptyMap
    /\ resolved = EmptyMap
    /\ batch = <<>>
    /\ prepared = FALSE
    /\ lastSrc = None /\ lastExif = None /\ lastRet = None /\ lastCached = FALSE
    /\ firstRet = EmptyMap
    /\ selIdle
    /\ execIdle

NoCall == lastSrc' = None /\ lastExif' = None /\ lastRet' = None /\ lastCached' = FALSE

\* self._pending_conflicts after prepare([(src, ExifOf(src)) for src in b])
PendingOf(b, lv) ==
    [name \in { PathName(b[i]) : i \in 1..Len(b) } |->
        LET group == SelectSeq(b, LAMBDA src : PathName(src) = name)
        IN [j \in 1..Len(group) |-> <<group[j], GetDestDir(lv, ExifOf(group[j]))>>]]

\* PathGenerator.prepare(image_paths)
Prepare(b) ==
    /\ pending' = PendingOf(b, level)
    /\ resolved' = EmptyMap
    /\ firstRet' = EmptyMap
    /\ batch' = b
    /\ prepared' = TRUE
    /\ NoCall
    /\ UNCHANGED <<level, disk, selVars, execVars, auxVars>>

\* PathGenerator.generate(image_path, exif_data)
Generate(src, exif) ==
    LET ret == GenerateResult(src, exif, level, pending, resolved, disk)
    IN /\ resolved' = MapPut(resolved, src, ret)
       /\ firstRet' = IF src \in DOMAIN firstRet THEN firstRet
                      ELSE MapPut(firstRet, src, ret)
       /\ lastSrc' = Some(src)
       /\ lastExif' = Some(exif)
       /\ lastRet' = Some(ret)
       /\ lastCached' = (src \in DOMAIN resolved)
       /\ UNCHANGED <<level, disk, pending, batch, prepared, selVars, execVars, auxVars>>

\* FileExecutor.execute's copy or move of one mapping: the destination now exists
Materialize(src) ==
    /\ src \in DOMAIN resolved
    /\ resolved[src] \notin disk
    /\ Cardinality(disk) < MaxDisk
    /\ disk' = disk \cup {resolved[src]}
    /\ NoCall
    /\ UNCHANGED <<level, pending, resolved, batch, prepared, firstRet, selVars, execVars, auxVars>>

BatchSources == { batch[i] : i \in 1..Len(batch) }

\* One pass of Orbit.simulate over any batch: prepare(), then generate() for
\* its files with the metadata scanned for them; or generate() with no prepare().
NextPath ==
    \/ \E b \in BatchesOf(SourceList, MaxBatch) : Prepare(b)
    \/ \E src \in (IF prepared THEN BatchSources ELSE Sources) :
          Generate(src, ExifOf(src))

SpecPath == InitPath /\ [][NextPath]_vars

\* Runs repeated over a destination in which earlier runs left their files:
\* the first generate() for a file passes the scanned metadata, later calls any.
InitRerun == InitPath /\ level = "normal"

NextRerun ==
    \/ \E b \in BatchesOf(RerunList, MaxRerun) : Prepare(b)
    \/ \E src \in BatchSources, exif \in ExifSet :
          /\ src \notin DOMAIN resolved => exif = ExifOf(src)
          /\ Generate(src, exif)
    \/ \E src \in BatchSources : Materialize(src)

SpecRerun == InitRerun /\ [][NextRerun]_vars


----------------------------------------------------------------------------
(* Datetime selection on its own: every candidate dict under every level   *)

pathIdle ==
    /\ level = "normal" /\ disk = {} /\ pending = EmptyMap /\ resolved = EmptyMap
    /\ batch = <<>> /\ prepared = FALSE
    /\ lastSrc = None /\ lastExif = None /\ lastRet = None /\ lastCached = FALSE
    /\ firstRet = EmptyMap

InitSel ==
    /\ auxIdle
    /\ selLevel \in Levels
    /\ selExif \in AllExif
    /\ selResult = None
    /\ selPc = "ready"
    /\ pathIdle
    /\ execIdle

\* strategy.extract_datetime(exif_data)
Extract ==
    /\ selPc = "ready"
    /\ selResult' = ExtractDatetime(selLevel, selExif)
    /\ selPc' = "done"
    /\ UNCHANGED <<selLevel, selExif, pathVars, execVars, auxVars>>

NextSel == Extract

SpecSel == InitSel /\ [][NextSel]_vars

----------------------------------------------------------------------------
(* Orbit.execute, FileExecutor.execute, Journal                            *)

\* The source tree: four files with the same leaf name, the last of them in
\* a directory that lies under the destination
ExecFileList == <<
    << <<"x">>, Photo >>,                  \* x/photo.jpg
    << <<"1">>, <<"x">>, Photo >>,         \* 1/x/photo.jpg
    << <<"y">>, Photo >>,                  \* y/photo.jpg
    << <<"dest">>, <<"in">>, Photo >> >>   \* dest/in/photo.jpg
ExecFiles == { ExecFileList[i] : i \in 1..Len(ExecFileList) }
ContentOf(f) == CASE f = ExecFileList[1] -> "c1"
                  [] f = ExecFileList[2] -> "c2"
                  [] f = ExecFileList[3] -> "c3"
                  [] f = ExecFileList[4] -> "c4"

DirX  == << <<"x">> >>
Dir1X == << <<"1">>, <<"x">> >>
DirY  == << <<"y">> >>
DirIn == << <<"dest">>, <<"in">> >>
\* The source_dirs an Orbit is built with; Orbit._validate_paths accepts a
\* source directory that lies inside the destination
ScanChoices == { <<DirX>>, <<DirX, DirY>>, <<DirX, Dir1X>>, <<DirX, DirX>>, <<DirIn>> }

\* the strictness level of the runs
ExecLevel == "normal"

\* the most execute() calls of one behaviour
MaxRuns == 2
\* the most I/O failures the environment injects in one behaviour
MaxFaults == 1

MapRemove(f, k) == [x \in DOMAIN f \ {k} |-> f[x]]

\* FileScanner._is_supported
IsSupported(f) ==
    PathSuffix(f) \in { <<".", ext>> : ext \in {"jpg", "jpeg", "png", "tiff", "nef", "cr2",
                                                "arw", "dng", "raf", "raw", "heic", "heif"} }

\* FileScanner.scan, non recursive: the supported files directly in each
\* source directory, directory after directory
RECURSIVE Scan(_, _)
Scan(dirs, fsys) ==
    IF dirs = <<>> THEN <<>>
    ELSE SelectSeq(ExecFileList,
                   LAMBDA f : f \in DOMAIN fsys /\ PathParent(f) = Head(dirs)
                              /\ IsSupported(f))
         \o Scan(Tail(dirs), fsys)

\* the loop of Orbit.simulate over the scanned files: generate() for each
RECURSIVE GenerateAll(_, _, _, _, _)
GenerateAll(scan, i, pend, res, dsk) ==
    IF i > Len(scan) THEN <<>>
    ELSE LET ret == GenerateResult(scan[i], ExifOf(scan[i]), ExecLevel, pend, res, dsk)
         IN <<<<scan[i], ret>>>>
            \o GenerateAll(scan, i + 1, pend, MapPut(res, scan[i], ret), dsk)

\* Orbit.simulate: scan, prepare(), generate() -> file_mappings
SimulateMappings(fsys, dirs) ==
    LET scan == Scan(dirs, fsys)
    IN GenerateAll(scan, 1, PendingOf(scan, ExecLevel), EmptyMap, DOMAIN fsys)

\* the entry Journal.record builds
JournalEntry(src, dst, mode) ==
    [source |-> StrPath(src), destination |-> StrPath(dst), mode |-> mode]

\* One line of the journal file is [kind, value]:
\*   "object"   the text json.dumps wrote for value[1], newline-terminated
\*   "partial"  the beginning of such a text, not terminated (a torn write);
\*              only the last line of a file can be partial
\*   "garbage"  a terminated line of text that is not JSON
\*   "blank"    a line of white space
\*   "bytes"    a line holding bytes that are not UTF-8
JsonDumps(entry) == [kind |-> "object", value |-> Some(entry)]
PartialLine == [kind |-> "partial", value |-> None]
GarbageLine == [kind |-> "garbage", value |-> None]
BlankLine   == [kind |-> "blank", value |-> None]
BytesLine   == [kind |-> "bytes", value |-> None]

\* "line = line.strip(); if line:"
IsBlank(line) == line.kind = "blank"
\* json.loads(line) raises json.JSONDecodeError
JsonDecodeError(line) == line.kind \in {"partial", "garbage"}
\* json.loads(line)
JsonLoads(line) == line.value[1]
\* decoding the file as UTF-8 raises UnicodeDecodeError
Undecodable(line) == line.kind = "bytes"

FileLines(jf) == IF jf = None THEN <<>> ELSE jf[1]

\* Journal.load raises: "for line in f" decodes the file, and only
\* json.JSONDecodeError is caught
LoadRaises(jf) == \E i \in 1..Len(FileLines(jf)) : Undecodable(FileLines(jf)[i])

\* the loop of Journal.load over the lines of the file
RECURSIVE LoadLines(_)
LoadLines(lines) ==
    IF lines = <<>> THEN <<>>
    ELSE IF IsBlank(Head(lines)) \/ JsonDecodeError(Head(lines)) \/ Undecodable(Head(lines))
         THEN LoadLines(Tail(lines))
         ELSE <<JsonLoads(Head(lines))>> \o LoadLines(Tail(lines))

\* Journal.load: self.entries afterwards (when it does not raise)
LoadEntries(jf) == LoadLines(FileLines(jf))

\* Journal.get_processed_sources
ProcessedSources(es) == { es[i].source : i \in 1..Len(es) }

InitExec ==
    /\ auxIdle
    /\ fs = [f \in ExecFiles |-> ContentOf(f)]
    /\ journalFile = None
    /\ sourceDirs \in ScanChoices
    /\ verify \in BOOLEAN
    /\ pc = "idle" /\ opMode = "copy" /\ hasJournal = FALSE /\ entries = <<>>
    /\ already = {} /\ mappings = <<>> /\ idx = 0 /\ processed = 0 /\ skipped = 0
    /\ errors = <<>> /\ undoIdx = 0 /\ undoResults = <<>> /\ runs = 0 /\ faults = 0
    /\ selIdle
    /\ pathIdle

\* no call is running: before the first call, after execute() returned, after
\* undo() returned (with or without entries), after the process was killed
AtRest == pc \in {"idle", "undone", "nothing", "crashed"}

\* Orbit.execute(mode, resume=resume) up to the executor's loop
StartExecute(mode, resume) ==
    /\ UNCHANGED <<selVars, pathVars, auxVars>>
    /\ AtRest
    /\ ~(resume /\ LoadRaises(journalFile))
    /\ runs < MaxRuns
    /\ runs' = runs + 1
    /\ opMode' = mode
    /\ hasJournal' = resume
    /\ mappings' = SimulateMappings(fs, sourceDirs)
    /\ entries' = IF resume THEN LoadEntries(journalFile) ELSE <<>>
    /\ already' = IF resume THEN ProcessedSources(LoadEntries(journalFile)) ELSE {}
    /\ idx' = 1 /\ processed' = 0 /\ skipped' = 0 /\ errors' = <<>>
    /\ pc' = "next"
    /\ UNCHANGED <<fs, journalFile, sourceDirs, verify, undoIdx, undoResults, faults>>

CurSource == mappings[idx][1]
CurDest == mappings[idx][2]

\* the "except Exception" branch of the loop
RaisedAbort ==
    /\ errors' = Append(errors, <<CurSource, "execution">>)
    /\ skipped' = skipped + 1
    /\ idx' = idx
    /\ pc' = "idle"
Raised ==
    /\ errors' = Append(errors, <<CurSource, "execution">>)
    /\ skipped' = skipped + 1
    /\ idx' = idx + 1
    /\ pc' = "next"

\* shutil.copy2 / shutil.move
AfterCopyNothing(fsys, src, dst, content) == fsys
AfterCopy(fsys, src, dst, content) == MapPut(fsys, dst, content)
AfterMove(fsys, src, dst) == MapPut(MapRemove(fsys, src), dst, fsys[src])

\* the copy or move of the mapping at hand
AfterOp(fsys, mode, src, dst) ==
    IF mode = "copy"
    THEN AfterCopy(fsys, src, dst, fsys[src])
    ELSE AfterMove(fsys, ParsePath(StrPath(src)), ParsePath(StrPath(dst)))

\* one turn of the loop up to the end of the copy or move
OpStep ==
    /\ UNCHANGED <<selVars, pathVars, auxVars>>
    /\ pc = "next"
    /\ idx <= Len(mappings)
    /\ \/ \* already journaled: skipped
          /\ StrPath(CurSource) \in already
          /\ skipped' = skipped + 1
          /\ idx' = idx + 1
          /\ UNCHANGED <<fs, pc, errors, faults>>
       \/ \* the copy or move succeeds
          /\ StrPath(CurSource) \notin already
          /\ CurSource \in DOMAIN fs
          /\ fs' = AfterOp(fs, opMode, CurSource, CurDest)
          /\ pc' = "verify"
          /\ UNCHANGED <<skipped, idx, errors, faults>>
       \/ \* the copy or move returns but the bytes written differ
          /\ StrPath(CurSource) \notin already
          /\ CurSource \in DOMAIN fs
          /\ faults < MaxFaults
          /\ faults' = faults + 1
          /\ fs' = MapPut(AfterOp(fs, opMode, CurSource, CurDest), CurDest, "corrupt")
          /\ pc' = "verify"
          /\ UNCHANGED <<skipped, idx, errors>>
       \/ \* the source is gone: FileNotFoundError
          /\ StrPath(CurSource) \notin already
          /\ CurSource \notin DOMAIN fs
          /\ Raised
          /\ UNCHANGED <<fs, faults>>
       \/ \* mkdir, copy2 or move fails
          /\ StrPath(CurSource) \notin already
          /\ faults < MaxFaults
          /\ faults' = faults + 1
          /\ Raised
          /\ UNCHANGED fs
    /\ UNCHANGED <<journalFile, sourceDirs, verify, opMode, hasJournal, entries, already,
                   mappings, processed, undoIdx, undoResults, runs>>

\* FileExecutor._verify_checksum: equal hashes; any exception counts as unequal
VerifyChecksumAlways(fsys, src, dst) == TRUE
VerifyChecksum(fsys, src, dst) ==
    /\ src \in DOMAIN fsys
    /\ dst \in DOMAIN fsys
    /\ fsys[src] = fsys[dst]

\* "if self.verify and destination.exists(): ..."
VerifyStep ==
    /\ UNCHANGED <<selVars, pathVars, auxVars>>
    /\ pc = "verify"
    /\ \/ \* no verification, or equal hashes
          /\ ~(verify /\ Exists(CurDest, DOMAIN fs) /\ ~VerifyChecksum(fs, CurSource, CurDest))
          /\ pc' = "record"
          /\ UNCHANGED <<errors, fs, skipped, idx, faults>>
       \/ \* mismatch: the destination is deleted
          /\ verify /\ Exists(CurDest, DOMAIN fs) /\ ~VerifyChecksum(fs, CurSource, CurDest)
          /\ errors' = Append(errors, <<CurSource, "checksum">>)
          /\ fs' = MapRemove(fs, CurDest)
          /\ skipped' = skipped + 1
          /\ idx' = idx + 1
          /\ pc' = "next"
          /\ UNCHANGED faults
       \/ \* mismatch, and destination.unlink raises: the "except Exception"
          \* branch runs after the checksum error was appended
          /\ verify /\ Exists(CurDest, DOMAIN fs) /\ ~VerifyChecksum(fs, CurSource, CurDest)
          /\ errors' = Append(Append(errors, <<CurSource, "checksum">>),
                              <<CurSource, "execution">>)
          /\ skipped' = skipped + 1
          /\ idx' = idx + 1
          /\ pc' = "next"
          /\ UNCHANGED <<fs, faults>>
    /\ UNCHANGED <<journalFile, sourceDirs, verify, opMode, hasJournal, entries, already,
                   mappings, processed, undoIdx, undoResults, runs>>

\* open(journal_path, "a") creates the file
Opened(jf) == Some(FileLines(jf))

\* Journal.record: the file after "f.write(json.dumps(entry) + '\n')".  Text
\* appended behind an unterminated line continues that line.
Recorded(jf, entry) ==
    LET lines == FileLines(jf)
    IN IF lines # <<>> /\ Last(lines).kind = "partial"
       THEN Some(Append(Front(lines), GarbageLine))
       ELSE Some(Append(lines, JsonDumps(entry)))

\* the file after a write that stopped part way through the record
TornWrite(jf) ==
    LET lines == FileLines(jf)
    IN IF lines # <<>> /\ Last(lines).kind = "partial"
       THEN Some(lines)
       ELSE Some(Append(lines, PartialLine))

\* what a failed or interrupted Journal.record can leave behind
AfterFailedRecord(jf) == {jf, Opened(jf), TornWrite(jf)}

\* "if self.journal: self.journal.record(source, destination, mode)"
RecordStep ==
    /\ UNCHANGED <<selVars, pathVars, auxVars>>
    /\ pc = "record"
    /\ \/ /\ hasJournal
          /\ entries' = Append(entries, JournalEntry(CurSource, CurDest, opMode))
          /\ journalFile' = Recorded(journalFile, JournalEntry(CurSource, CurDest, opMode))
          /\ pc' = "count"
          /\ UNCHANGED <<errors, skipped, idx, faults>>
       \/ \* opening or writing the journal file fails
          /\ hasJournal
          /\ faults < MaxFaults
          /\ faults' = faults + 1
          /\ entries' = Append(entries, JournalEntry(CurSource, CurDest, opMode))
          /\ Raised
          /\ journalFile' \in AfterFailedRecord(journalFile)
       \/ /\ ~hasJournal
          /\ pc' = "count"
          /\ UNCHANGED <<entries, journalFile, errors, skipped, idx, faults>>
    /\ UNCHANGED <<fs, sourceDirs, verify, opMode, hasJournal, already, mappings,
                   processed, undoIdx, undoResults, runs>>

\* "processed += 1"
CountStep ==
    /\ UNCHANGED <<selVars, pathVars, auxVars>>
    /\ pc = "count"
    /\ processed' = processed + 1
    /\ idx' = idx + 1
    /\ pc' = "next"
    /\ UNCHANGED <<fs, journalFile, sourceDirs, verify, opMode, hasJournal, entries,
                   already, mappings, skipped, errors, undoIdx, undoResults, runs, faults>>

\* the loop is over: execute() returns
EndRun ==
    /\ UNCHANGED <<selVars, pathVars, auxVars>>
    /\ pc = "next"
    /\ idx > Len(mappings)
    /\ pc' = "idle"
    /\ UNCHANGED <<fs, journalFile, sourceDirs, verify, opMode, hasJournal, entries,
                   already, mappings, idx, processed, skipped, errors, undoIdx,
                   undoResults, runs, faults>>

\* "if not journal.entries"
NothingToUndoNever(es) == FALSE
NothingToUndo(es) == es = <<>>

\* Orbit.undo up to the loop of Journal.undo
StartUndo ==
    /\ UNCHANGED <<selVars, pathVars, auxVars>>
    /\ AtRest
    /\ ~LoadRaises(journalFile)
    /\ entries' = LoadEntries(journalFile)
    /\ undoResults' = <<>>
    /\ IF NothingToUndo(LoadEntries(journalFile))
       THEN pc' = "nothing" /\ undoIdx' = 0
       ELSE pc' = "undo" /\ undoIdx' = Len(LoadEntries(journalFile))
    /\ UNCHANGED <<fs, journalFile, sourceDirs, verify, opMode, hasJournal, already,
                   mappings, idx, processed, skipped, errors, runs, faults>>

UndoEntryForward == entries[Len(entries) + 1 - undoIdx]
UndoEntry == entries[undoIdx]
UndoSource == ParsePath(UndoEntry.source)
UndoDest == ParsePath(UndoEntry.destination)

\* the reversal of one entry: dst.unlink() or shutil.move(dst, src)
ReversedByDeleting(fsys, entry) == MapRemove(fsys, ParsePath(entry.destination))
Reversed(fsys, entry) ==
    LET src == ParsePath(entry.source)
        dst == ParsePath(entry.destination)
    IN IF entry.mode = "move" THEN MapPut(MapRemove(fsys, dst), src, fsys[dst])
       ELSE IF entry.mode = "copy" THEN MapRemove(fsys, dst)
       ELSE fsys

\* "if not dst.exists()"
DestinationMissingNever(fsys, entry) == FALSE
DestinationMissing(fsys, entry) == ~Exists(ParsePath(entry.destination), DOMAIN fsys)

\* one turn of Journal.undo's loop over reversed(self.entries)
UndoStep ==
    /\ UNCHANGED <<selVars, pathVars, auxVars>>
    /\ pc = "undo"
    /\ undoIdx >= 1
    /\ undoIdx' = undoIdx - 1
    /\ \/ /\ DestinationMissing(fs, UndoEntry)
          /\ undoResults' = Append(undoResults, <<UndoEntry, "skipped">>)
          /\ UNCHANGED <<fs, faults>>
       \/ /\ ~DestinationMissing(fs, UndoEntry)
          /\ UndoDest \in DOMAIN fs
          /\ fs' = Reversed(fs, UndoEntry)
          /\ undoResults' = Append(undoResults, <<UndoEntry, "undone">>)
          /\ UNCHANGED faults
       \/ \* mkdir, move or unlink raises: no such file, or a failure of the disk
          /\ ~DestinationMissing(fs, UndoEntry)
          /\ UndoDest \in DOMAIN fs => faults < MaxFaults
          /\ faults' = IF UndoDest \in DOMAIN fs THEN faults + 1 ELSE faults
          /\ undoResults' = Append(undoResults, <<UndoEntry, "error">>)
          /\ UNCHANGED fs
    /\ UNCHANGED <<journalFile, sourceDirs, verify, pc, opMode, hasJournal, entries,
                   already, mappings, idx, processed, skipped, errors, runs>>

\* "if self.journal_path.exists(): self.journal_path.unlink()"
UndoFinish ==
    /\ UNCHANGED <<selVars, pathVars, auxVars>>
    /\ pc = "undo"
    /\ undoIdx = 0
    /\ journalFile' = None
    /\ pc' = "undone"
    /\ UNCHANGED <<fs, sourceDirs, verify, opMode, hasJournal, entries, already,
                   mappings, idx, processed, skipped, errors, undoIdx, undoResults,
                   runs, faults>>

\* the process is killed between two steps of execute() or undo(); a kill
\* inside Journal.record can leave the journal file opened or half written
Crash ==
    /\ UNCHANGED <<selVars, pathVars, auxVars>>
    /\ pc \in {"next", "verify", "record", "count", "undo"}
    /\ faults < MaxFaults
    /\ faults' = faults + 1
    /\ pc' = "crashed"
    /\ journalFile' \in IF pc = "record" /\ hasJournal
                        THEN AfterFailedRecord(journalFile)
                        ELSE {journalFile}
    /\ UNCHANGED <<fs, sourceDirs, verify, opMode, hasJournal, entries, already,
                   mappings, idx, processed, skipped, errors, undoIdx, undoResults, runs>>

NextExec ==
    \/ \E mode \in {"copy", "move"}, resume \in BOOLEAN : StartExecute(mode, resume)
    \/ OpStep
    \/ VerifyStep
    \/ RecordStep
    \/ CountStep
    \/ EndRun
    \/ StartUndo
    \/ UndoStep
    \/ UndoFinish
    \/ Crash

SpecExec == InitExec /\ [][NextExec]_vars

----------------------------------------------------------------------------
(* Journal.load over a journal file of any content                         *)

\* the most lines of a journal file
MaxLines == 3

\* two records a journal can hold
EntryA == JournalEntry(ExecFileList[1], Append(UnsortedDir, Photo), "copy")
EntryB == JournalEntry(ExecFileList[3], Append(UnsortedDir, PhotoX), "move")

\* the terminated lines a file can hold
CompleteLines == {JsonDumps(EntryA), JsonDumps(EntryB), GarbageLine, BlankLine, BytesLine}

LineSeqs(n) == UNION { [1..k -> CompleteLines] : k \in 0..n }

\* the journal files: absent, or up to MaxLines lines the last of which may
\* be unterminated
JournalFiles ==
    {None}
    \cup { Some(ls) : ls \in LineSeqs(MaxLines) }
    \cup { Some(Append(ls, PartialLine)) : ls \in LineSeqs(MaxLines - 1) }

InitLoad ==
    /\ auxIdle
    /\ journalFile \in JournalFiles
    /\ entries \in {<<>>, <<EntryB>>}
    /\ pc = "load"
    /\ fs = EmptyMap /\ sourceDirs = <<>> /\ verify = FALSE
    /\ opMode = "copy" /\ hasJournal = FALSE
    /\ already = {} /\ mappings = <<>> /\ idx = 0 /\ processed = 0 /\ skipped = 0
    /\ errors = <<>> /\ undoIdx = 0 /\ undoResults = <<>> /\ runs = 0 /\ faults = 0
    /\ selIdle
    /\ pathIdle

\* the index of the first line that cannot be decoded
FirstUndecodable(lines) ==
    CHOOSE i \in 1..Len(lines) :
        Undecodable(lines[i]) /\ \A j \in 1..(i - 1) : ~Undecodable(lines[j])

\* Journal.load.  When decoding raises, the entries of some of the lines
\* before the undecodable one (those of the chunks read so far) are held.
Load ==
    /\ pc = "load"
    /\ IF LoadRaises(journalFile)
       THEN /\ pc' = "load_raised"
            /\ \E k \in 0..(FirstUndecodable(FileLines(journalFile)) - 1) :
                  entries' = LoadLines(SubSeq(FileLines(journalFile), 1, k))
       ELSE /\ pc' = "loaded"
            /\ entries' = LoadEntries(journalFile)
    /\ UNCHANGED <<fs, journalFile, sourceDirs, verify, opMode, hasJournal, already,
                   mappings, idx, processed, skipped, errors, undoIdx, undoResults,
                   runs, faults>>
    /\ UNCHANGED <<selVars, pathVars, auxVars>>

NextLoad == Load

SpecLoad == InitLoad /\ [][NextLoad]_vars

----------------------------------------------------------------------------
(* Claims on path assignment                                               *)

\* C1: after prepare() over a batch, the files of the batch that share a leaf
\* name and lie in distinct source parent directories are given pairwise
\* distinct paths by generate().
C1_SharedLeafDistinct ==
    prepared =>
        \A s, t \in DOMAIN resolved :
            (/\ s # t
             /\ PathName(s) = PathName(t)
             /\ PathParent(s) # PathParent(t))
            => resolved[s] # resolved[t]

\* C2: in the mappings of one prepare()+generate() pass no two distinct source
\* files are assigned the same destination path, whatever their leaf names.
C2_BatchUnique ==
    prepared =>
        \A s, t \in DOMAIN resolved : s # t => resolved[s] # resolved[t]

\* C3 as stated: no generate() call returns a path that exists on disk at the
\* moment of the call.
C3_NeverExisting ==
    lastSrc # None => ~Exists(lastRet[1], disk)

\* What generate() computes before the on-disk check, for the last call
LastComputed == ComputedPath(lastSrc[1], lastExif[1], level, pending)

\* C3 amended: a generate() call that is not answered from the memo (the first
\* call for a file since prepare()) returns a path that does not exist on disk
\* at the moment of the call, whatever the in-batch stage computed.
C3_FirstCallFree ==
    (lastSrc # None /\ ~lastCached) => ~Exists(lastRet[1], disk)

\* a first call whose computed path was occupied, twice over
C3_Witness ==
    /\ lastSrc # None /\ ~lastCached
    /\ Exists(LastComputed, disk)
    /\ Cardinality(disk) >= 2
    /\ lastRet[1] # LastComputed

\* "The stem ends in _<digits>", and the two halves of such a stem
EndsInNumber(stem) ==
    \E k \in 1..(Len(stem) - 1) :
        stem[k] = "_" /\ \A j \in (k + 1)..Len(stem) : IsDigit(stem[j])
NumberAt(stem) ==
    CHOOSE k \in 1..(Len(stem) - 1) :
        stem[k] = "_" /\ \A j \in (k + 1)..Len(stem) : IsDigit(stem[j])

\* <base>_<k><ext> beside path, k the smallest counter >= start that is free
Numbered_k(path, base, k) ==
    Append(PathParent(path), base \o <<"_">> \o Str(k) \o PathSuffix(path))
SmallestFree(path, base, start, dsk) ==
    LET k == CHOOSE k \in start..(start + Cardinality(dsk)) :
                /\ ~Exists(Numbered_k(path, base, k), dsk)
                /\ \A j \in start..(k - 1) : Exists(Numbered_k(path, base, j), dsk)
    IN Numbered_k(path, base, k)

\* C4 as stated: a stem that ends in _n restarts at n+1 with base = the stem
\* without _n, any other stem starts at 1.
C4_Expected(path, dsk) ==
    LET stem == PathStem(path)
    IN IF EndsInNumber(stem)
       THEN SmallestFree(path, SubSeq(stem, 1, NumberAt(stem) - 1),
                         ParseInt(SubSeq(stem, NumberAt(stem) + 1, Len(stem))) + 1, dsk)
       ELSE SmallestFree(path, stem, 1, dsk)
C4_ExpectedAmended(path, dsk) ==
    LET stem == PathStem(path)
    IN IF EndsInNumber(stem) /\ NumberAt(stem) > 1
       THEN SmallestFree(path, SubSeq(stem, 1, NumberAt(stem) - 1),
                         ParseInt(SubSeq(stem, NumberAt(stem) + 1, Len(stem))) + 1, dsk)
       ELSE SmallestFree(path, stem, 1, dsk)
C5_Idempotent ==
    lastSrc # None => lastRet[1] = firstRet[lastSrc[1]]

\* a repeated call, with other metadata, after its path was created on disk
C5_Witness ==
    /\ lastSrc # None /\ lastCached
    /\ lastRet[1] \in disk
    /\ lastExif[1] # ExifOf(lastSrc[1])
    /\ GetDestDir(level, lastExif[1]) # PathParent(lastRet[1])

\* C6: a file for which the configured level resolves no timestamp is given a
\* path whose directory is exactly <destination root>/Unsorted.
C6_UnsortedDir ==
    (lastSrc # None /\ ExtractDatetime(level, lastExif[1]) = None)
    => PathParent(lastRet[1]) = UnsortedDir

\* C7: Strict returns the original-capture value or nothing; Normal the
\* original-capture value, else the container-modified one, else nothing;
\* Flexible the first present of original-capture, container-modified and
\* filesystem-modified, else nothing.
C7_SelectionOrder ==
    selPc = "done" =>
        /\ selLevel = "strict" =>
              selResult = (IF KeyOriginal \in DOMAIN selExif
                           THEN <<selExif[KeyOriginal]>> ELSE None)
        /\ selLevel = "normal" =>
              selResult = (IF KeyOriginal \in DOMAIN selExif THEN <<selExif[KeyOriginal]>>
                           ELSE IF KeyImage \in DOMAIN selExif THEN <<selExif[KeyImage]>>
                           ELSE None)
        /\ selLevel = "flexible" =>
              /\ selResult = (IF KeyOriginal \in DOMAIN selExif THEN <<selExif[KeyOriginal]>>
                              ELSE IF KeyImage \in DOMAIN selExif THEN <<selExif[KeyImage]>>
                              ELSE IF KeyFile \in DOMAIN selExif THEN <<selExif[KeyFile]>>
                              ELSE None)
              /\ DOMAIN selExif # {} => selResult # None
        /\ (selLevel # "flexible" /\ DOMAIN selExif = {KeyFile}) => selResult = None

\* Normal passes over a filesystem time to return the container's
C7_Witness ==
    /\ selPc = "done" /\ selLevel = "normal"
    /\ DOMAIN selExif = {KeyImage, KeyFile}
    /\ selExif[KeyImage] # selExif[KeyFile]
    /\ selResult = <<selExif[KeyImage]>>



----------------------------------------------------------------------------
(* Claims on execution, resume and undo                                    *)

JournalLines == LoadEntries(journalFile)

\* C8: in every execution run, with or without resume, a file whose operation
\* succeeded and passed verification has its record {source, destination,
\* mode} in the journal file before it is counted as processed.
C8_JournaledBeforeCounted ==
    pc = "count" =>
        \E i \in 1..Len(JournalLines) :
            JournalLines[i] = JournalEntry(CurSource, CurDest, opMode)

\* C9, its conclusion: whatever runs were made, the journal file holds at most
\* one record per source.
C9_OneRecordPerSource ==
    \A i, j \in 1..Len(JournalLines) :
        i # j => JournalLines[i].source # JournalLines[j].source

\* What the reversal of the entry at hand does to the files
C10_Effect ==
    LET src == UndoSource
        dst == UndoDest
    IN /\ UndoEntry.mode = "copy" =>
            /\ dst \notin DOMAIN fs'
            /\ (src \in DOMAIN fs) = (src \in DOMAIN fs')
            /\ src \in DOMAIN fs => fs'[src] = fs[src]
       /\ UndoEntry.mode = "move" =>
            /\ dst \notin DOMAIN fs'
            /\ src \in DOMAIN fs'
            /\ dst \in DOMAIN fs => fs'[src] = fs[dst]
       /\ undoResults' = Append(undoResults, <<UndoEntry, "undone">>)

C11_ReverseOrderOnePerEntry ==
    /\ [](pc \in {"undo", "undone"} =>
            /\ Len(undoResults) = Len(entries) - undoIdx
            /\ pc = "undone" => Len(undoResults) = Len(entries)
            /\ \A i \in 1..Len(undoResults) :
                  /\ undoResults[i][1] = entries[Len(entries) + 1 - i]
                  /\ undoResults[i][2] \in {"undone", "skipped", "error"})
    /\ [][(pc = "undo" /\ undoResults' # undoResults /\ Last(undoResults')[2] = "error")
          => (pc' = "undo" /\ undoIdx' = undoIdx - 1 /\ entries' = entries)]_vars

\* undo returned after two entries, the later one first, the first of which
\* failed
C11_Witness ==
    /\ pc = "undone"
    /\ Len(entries) = 2
    /\ entries[1] # entries[2]
    /\ undoResults[1] = <<entries[2], "error">>
    /\ undoResults[2] = <<entries[1], "undone">>

\* C12: during undo an entry whose destination no longer exists is reported
\* 'skipped', no file is changed (the source path is not touched), and the
\* loop goes on with the remaining entries.
C12_MissingDestinationSkipped ==
    [][(pc = "undo" /\ undoIdx >= 1 /\ undoIdx' # undoIdx /\ ~Exists(UndoDest, DOMAIN fs))
       => /\ undoResults' = Append(undoResults, <<UndoEntry, "skipped">>)
          /\ fs' = fs
          /\ pc' = "undo"
          /\ undoIdx' = undoIdx - 1
          /\ entries' = entries]_vars

\* an entry was skipped and the entry after it was then reversed
C12_Witness ==
    /\ pc = "undo"
    /\ \E i \in 1..(Len(undoResults) - 1) :
          /\ undoResults[i][2] = "skipped"
          /\ ParsePath(undoResults[i][1].source) \in DOMAIN fs
          /\ undoResults[i + 1][2] = "undone"

\* C13: after an undo completes the journal file no longer exists, whatever
\* the outcomes of the entries, and also when the file held no parseable entry.
C13_JournalGoneAfterUndo ==
    pc \in {"undone", "nothing"} => journalFile = None

\* C14: Orbit.undo with a missing journal file, or a journal file none of
\* whose lines is a record, returns an empty result list at once, without
\* raising and without changing any of the organised files.
C14_NothingToUndo ==
    [][(/\ AtRest
        /\ pc' \in {"nothing", "undo"}
        /\ \A i \in 1..Len(FileLines(journalFile)) :
              FileLines(journalFile)[i].kind # "object")
       => (pc' = "nothing" /\ undoResults' = <<>> /\ fs' = fs)]_vars

\* an undo completed (it removed the journal a journaled run had written) and
\* the undo issued right after it found nothing to do
C14_Witness ==
    /\ pc = "nothing"
    /\ journalFile = None
    /\ faults = 0
    /\ hasJournal /\ processed >= 1
    /\ undoResults = <<>>

\* C15: with verification on, when the destination's content hash differs
\* from the source's after the operation, the destination is deleted, one
\* 'checksum' error is recorded for the file, the file is counted as skipped
\* and not as processed, and nothing is appended to the journal.
C15_MismatchDiscarded ==
    [][(/\ pc = "verify" /\ verify /\ pc' # "crashed"
        /\ CurDest \in DOMAIN fs /\ CurSource \in DOMAIN fs
        /\ fs[CurDest] # fs[CurSource])
       => /\ CurDest \notin DOMAIN fs'
          /\ errors' = Append(errors, <<CurSource, "checksum">>)
          /\ skipped' = skipped + 1
          /\ processed' = processed
          /\ journalFile' = journalFile
          /\ entries' = entries
          /\ idx' = idx + 1 /\ pc' = "next"]_vars

\* a journaled copy was found corrupt and discarded
C15_Witness ==
    /\ pc = "next" /\ verify /\ hasJournal /\ opMode = "copy"
    /\ idx = 2 /\ skipped = 1 /\ processed = 0
    /\ errors = << <<mappings[1][1], "checksum">> >>
    /\ mappings[1][2] \notin DOMAIN fs
    /\ mappings[1][1] \in DOMAIN fs
    /\ LoadEntries(journalFile) = <<>>

\* C16: with verification on, in copy and in move mode alike, an operation
\* that succeeded and whose destination holds the content the source had
\* passes: no error is recorded, the destination is kept and the file goes on
\* to be journaled and counted as processed.
C16_VerifiedOperationKept ==
    [][(/\ pc = "verify" /\ verify /\ pc' # "crashed"
        /\ CurDest \in DOMAIN fs
        /\ fs[CurDest] = ContentOf(CurSource))
       => /\ pc' = "record"
          /\ fs' = fs
          /\ errors' = errors
          /\ skipped' = skipped]_vars

\* C17: an I/O failure while creating directories, copying or moving one file
\* is caught for that file: one 'execution' error is recorded, the file is
\* counted as skipped, nothing is appended to the journal, and the loop goes
\* on with the next mapping.  (The step is a failure of the operation when it
\* neither completes the copy or move, pc' = "verify", nor is the process
\* being killed.)
C17_FailureKeptToOneFile ==
    [][(/\ pc = "next" /\ idx <= Len(mappings)
        /\ StrPath(CurSource) \notin already
        /\ pc' \notin {"crashed", "verify"}
        /\ (CurSource \notin DOMAIN fs \/ faults' # faults))
       => /\ errors' = Append(errors, <<CurSource, "execution">>)
          /\ skipped' = skipped + 1
          /\ processed' = processed
          /\ journalFile' = journalFile
          /\ entries' = entries
          /\ mappings' = mappings
          /\ idx' = idx + 1 /\ pc' = "next"]_vars

\* the first mapping failed and the second was carried out all the same
C17_Witness ==
    /\ pc = "count" /\ idx = 2
    /\ errors = << <<mappings[1][1], "execution">> >>
    /\ skipped = 1
    /\ mappings[1][2] \notin DOMAIN fs
    /\ CurDest \in DOMAIN fs

\* C19: whenever a record appears in the journal file it is the record of
\* the mapping at hand, written after its copy or move was carried out (the
\* destination is there, the source of a move is gone) and, when verification
\* is on, after the two contents were found equal; killing the process never
\* adds a record.
C19_RecordsNameCompletedOperations ==
    [][(journalFile' # None /\ LoadEntries(journalFile') # LoadEntries(journalFile))
       => /\ pc = "record"
          /\ LoadEntries(journalFile')
                = Append(LoadEntries(journalFile), JournalEntry(CurSource, CurDest, opMode))
          /\ CurDest \in DOMAIN fs
          /\ opMode = "move" => CurSource \notin DOMAIN fs
          /\ (verify /\ CurSource \in DOMAIN fs) => fs[CurDest] = fs[CurSource]]_vars

\* the process was killed in a verified run after a record was written
C19_Witness ==
    /\ pc = "crashed" /\ verify /\ hasJournal
    /\ idx = 2
    /\ LoadEntries(journalFile) = <<JournalEntry(mappings[1][1], mappings[1][2], opMode)>>
    /\ mappings[1][2] \in DOMAIN fs

\* C20: at every point of a journaled run, and after the process was killed
\* in it, every destination file the run created has a record in the journal
\* file that Journal.load returns.
C20_NoUnjournaledDestination ==
    (hasJournal /\ pc \in {"next", "verify", "record", "count", "crashed"} /\ undoIdx = 0)
    => \A j \in 1..Len(mappings) :
          (j <= idx /\ StrPath(mappings[j][1]) \notin already
           /\ mappings[j][2] \in DOMAIN fs)
          => \E i \in 1..Len(LoadEntries(journalFile)) :
                LoadEntries(journalFile)[i].destination = StrPath(mappings[j][2])

----------------------------------------------------------------------------
(* Claims on Journal.load                                                  *)

\* the lines of the file that hold a record, and the k-th of them
C18_RecordLines == { i \in 1..Len(FileLines(journalFile)) :
                        FileLines(journalFile)[i].kind = "object" }
C18_Kth(k) == CHOOSE i \in C18_RecordLines :
                 Cardinality({ j \in C18_RecordLines : j <= i }) = k

\* C18: Journal.load never fails because of the file's content: each line
\* that cannot be parsed is skipped, every other non-empty line becomes one
\* entry, the entries keep the order of the file, and they replace the
\* entries held before.
C18_LoadNeverFails ==
    pc \in {"loaded", "load_raised"} =>
        /\ pc = "loaded"
        /\ Len(entries) = Cardinality(C18_RecordLines)
        /\ \A k \in 1..Len(entries) :
              entries[k] = FileLines(journalFile)[C18_Kth(k)].value[1]

----------------------------------------------------------------------------
(* Copy-mode runs with resume, stopped between the copy and the record     *)

\* the process is killed after shutil.copy2 returned (and the verification,
\* when on, is under way or passed) and before Journal.record wrote anything
Interrupt ==
    /\ UNCHANGED <<selVars, pathVars, auxVars>>
    /\ pc \in {"verify", "record"}
    /\ pc' = "crashed"
    /\ UNCHANGED <<fs, journalFile, sourceDirs, verify, opMode, hasJournal, entries,
                   already, mappings, idx, processed, skipped, errors, undoIdx,
                   undoResults, runs, faults>>

NextResume ==
    \/ StartExecute("copy", TRUE)
    \/ OpStep
    \/ VerifyStep
    \/ RecordStep
    \/ CountStep
    \/ EndRun
    \/ Interrupt

SpecResume == InitExec /\ [][NextResume]_vars

\* the files under the destination that hold the content of src
C21_CopiesOf(src) ==
    { d \in DOMAIN fs : d \notin ExecFiles /\ fs[d] = ContentOf(src) }

\* the records of the journal file that name src
C21_RecordsOf(src) ==
    { i \in 1..Len(JournalLines) : JournalLines[i].source = StrPath(src) }

\* the file mappings of a run that nothing interrupts
C21_Uninterrupted == SimulateMappings([f \in ExecFiles |-> ContentOf(f)], sourceDirs)

\* the path generator gives every scanned file a destination of its own
C21_DestinationsApart ==
    \A i, j \in 1..Len(C21_Uninterrupted) :
        i # j => C21_Uninterrupted[i][2] # C21_Uninterrupted[j][2]

\* C21: when a copy-mode run with resume has returned, no I/O failure having
\* occurred in it or before it and the scanned files having destinations of
\* their own, every scanned source has exactly one copy under the destination
\* and exactly one journal record, as after an uninterrupted run, also when
\* an earlier run was stopped between a file's copy and its record.
C21_ResumeIdempotent ==
    (pc = "idle" /\ runs >= 1 /\ faults = 0 /\ C21_DestinationsApart) =>
        \A k \in 1..Len(Scan(sourceDirs, fs)) :
            LET src == Scan(sourceDirs, fs)[k]
            IN /\ Cardinality(C21_CopiesOf(src)) = 1
               /\ Cardinality(C21_RecordsOf(src)) = 1

----------------------------------------------------------------------------
(* Duplicate detection and Orbit.simulate under a duplicate policy         *)

\* the image files of two source directories
DupFileList == <<
    << <<"x">>, <<"a", ".", "jpg">> >>,
    << <<"x">>, <<"b", ".", "jpg">> >>,
    << <<"y">>, <<"a", ".", "jpg">> >>,
    << <<"y">>, <<"c", ".", "jpg">> >> >>
DupFiles == { DupFileList[i] : i \in 1..Len(DupFileList) }
DupDirs == {DirX, DirY}

\* the most source directories an Orbit is built with
MaxDirs == 3

\* what a file holds: one of two contents, or it cannot be read
Contents == {"h1", "h2"}
Unreadable == "unreadable"
\* st_size of a file with that content
SizeOf(h) == IF h = "h1" THEN 3 ELSE 5

\* detect_duplicates: None, "all" or "skip"
Policies == {"none", "all", "skip"}

\* the orders in which iterdir() can list the files of a set
Perms(S) == { s \in [1..Cardinality(S) -> S] : \A i, j \in DOMAIN s : i # j => s[i] # s[j] }
Listings(d) == Perms({ f \in DupFiles : PathParent(f) = d })
\* a listing for every directory, the same each time the directory is read
DirListings ==
    { l \in [DupDirs -> UNION { Listings(d) : d \in DupDirs }] :
          \A d \in DupDirs : l[d] \in Listings(d) }

\* FileScanner.scan: the listing of each source directory, one after the
\* other; nothing is removed when a directory is given twice
RECURSIVE ScanDirs(_, _)
ScanDirs(dirs, listing) ==
    IF dirs = <<>> THEN <<>>
    ELSE listing[Head(dirs)] \o ScanDirs(Tail(dirs), listing)

\* DuplicateGroup
Count(g) == Len(g.files)
IsDuplicate(g) == Count(g) > 1
Representative(g) == g.files[1]
Duplicates(g) == Tail(g.files)
WastedSpaceAll(g) == g.size * Count(g)
WastedSpace(g) == g.size * (Count(g) - 1)

\* compute_hash raises (the file cannot be opened or read)
HashFailsNever(content, f) == FALSE
HashFails(content, f) == content[f] = Unreadable

\* the position of the group of hash h, 0 when there is none
GroupOf(groups, h) ==
    IF \E k \in 1..Len(groups) : groups[k].checksum = h
    THEN CHOOSE k \in 1..Len(groups) : groups[k].checksum = h
    ELSE 0

\* the loop of DuplicateDetector.scan and the list it builds from the
\* dictionary, whose order is the order of insertion
RECURSIVE HashGroups(_, _, _, _)
HashGroups(files, content, i, groups) ==
    IF i > Len(files) THEN groups
    ELSE IF HashFails(content, files[i]) THEN HashGroups(files, content, i + 1, groups)
    ELSE LET h == content[files[i]]
             k == GroupOf(groups, h)
         IN IF k = 0
            THEN HashGroups(files, content, i + 1,
                            Append(groups, [checksum |-> h, files |-> <<files[i]>>,
                                            size |-> SizeOf(h)]))
            ELSE HashGroups(files, content, i + 1,
                            [groups EXCEPT ![k].files = Append(@, files[i])])

\* DuplicateDetector.scan
DupScan(files, content) == HashGroups(files, content, 1, <<>>)

\* DuplicateResult
RECURSIVE TotalDuplicates(_)
TotalDuplicates(groups) ==
    IF groups = <<>> THEN 0
    ELSE (IF IsDuplicate(Head(groups)) THEN Count(Head(groups)) - 1 ELSE 0)
         + TotalDuplicates(Tail(groups))
RECURSIVE TotalWastedSpace(_)
TotalWastedSpace(groups) ==
    IF groups = <<>> THEN 0
    ELSE (IF IsDuplicate(Head(groups)) THEN WastedSpace(Head(groups)) ELSE 0)
         + TotalWastedSpace(Tail(groups))
GroupsCount(groups) == Len(SelectSeq(groups, IsDuplicate))
GetFilesToSkip(groups) ==
    UNION { { Duplicates(groups[k])[j] : j \in 1..Len(Duplicates(groups[k])) } :
            k \in { n \in 1..Len(groups) : IsDuplicate(groups[n]) } }

\* max((g.count for g in groups), default=0)
MaxSourcesDuplicatesOnly(groups) ==
    IF \A k \in 1..Len(groups) : ~IsDuplicate(groups[k]) THEN 0
    ELSE CHOOSE n \in { Count(groups[k]) : k \in 1..Len(groups) } :
             \A k \in 1..Len(groups) : Count(groups[k]) <= n
MaxSources(groups) ==
    IF groups = <<>> THEN 0
    ELSE CHOOSE n \in { Count(groups[k]) : k \in 1..Len(groups) } :
             \A k \in 1..Len(groups) : Count(groups[k]) <= n

\* the cells of the header and of the row of a group; a cell is its text
CsvHeader(n) ==
    << <<"hash">>, <<"filename">>, <<"size_bytes">> >>
    \o [i \in 1..n |-> <<"source_">> \o Str(i)]
CsvRow(g, width) ==
    LET row == << <<g.checksum>>, PathName(Representative(g)), Str(g.size) >>
               \o [j \in 1..Count(g) |-> StrPath(g.files[j])]
    IN row \o [j \in 1..(width - Len(row)) |-> <<>>]

\* DuplicateDetector.export_csv: the rows of the file written
ExportCsv(groups) ==
    LET header == CsvHeader(MaxSources(groups))
        dups == SelectSeq(groups, IsDuplicate)
    IN <<header>> \o [k \in 1..Len(dups) |-> CsvRow(dups[k], Len(header))]

\* files_to_skip of Orbit.simulate
FilesToSkipAlways(policy, groups) == GetFilesToSkip(groups)
FilesToSkip(policy, groups) == IF policy = "skip" THEN GetFilesToSkip(groups) ELSE {}

InitDup ==
    /\ \E dirs \in UNION { [1..n -> DupDirs] : n \in 1..MaxDirs } :
       \E listing \in DirListings :
       \E content \in [{ f \in DupFiles : \E i \in 1..Len(dirs) : PathParent(f) = dirs[i] }
                           -> Contents \cup {Unreadable}] :
       \E policy \in Policies :
           dup = [pc |-> "ready", files |-> ScanDirs(dirs, listing),
                  content |-> content, policy |-> policy,
                  groups |-> <<>>, groupsCount |-> 0, totalDuplicates |-> 0,
                  totalWastedSpace |-> 0, skip |-> {}, csv |-> None, batch |-> <<>>,
                  mappings |-> <<>>, processed |-> 0, skipped |-> 0]
    /\ traceIdle /\ cfgIdle /\ poolIdle
    /\ selIdle
    /\ pathIdle
    /\ execIdle

\* Orbit.simulate from the duplicate detection to the end of the loop
Simulate ==
    /\ dup.pc = "ready"
    /\ LET detect == dup.policy # "none"
           groups == IF detect THEN DupScan(dup.files, dup.content) ELSE <<>>
           skip == FilesToSkip(dup.policy, groups)
           kept == SelectSeq(dup.files, LAMBDA f : f \notin skip)
           maps == GenerateAll(kept, 1, PendingOf(kept, ExecLevel), EmptyMap, {})
       IN dup' = [dup EXCEPT
                    !.pc = "done",
                    !.groups = groups,
                    !.groupsCount = GroupsCount(groups),
                    !.totalDuplicates = TotalDuplicates(groups),
                    !.totalWastedSpace = TotalWastedSpace(groups),
                    !.skip = skip,
                    !.csv = IF detect THEN Some(ExportCsv(groups)) ELSE None,
                    !.batch = kept,
                    !.mappings = maps,
                    !.processed = Len(maps),
                    !.skipped = Cardinality({ i \in 1..Len(dup.files) : dup.files[i] \in skip })]
    /\ UNCHANGED <<selVars, pathVars, execVars, trace, cfg, pool>>

NextDup == Simulate

SpecDup == InitDup /\ [][NextDup]_vars

\* the scanned files whose hashing succeeded and gave h
C22_Hashed(h) == { dup.files[i] : i \in { n \in 1..Len(dup.files) : dup.content[dup.files[n]] = h } }

\* C22: get_files_to_skip() holds exactly the members after the first of the
\* groups of two or more: no representative and no file of a singleton group
\* is in it, and of the files of every hashed content exactly one, the first
\* seen, stays outside it.
C22_RepresentativeKept ==
    (dup.pc = "done" /\ dup.policy # "none") =>
        /\ \A k \in 1..Len(dup.groups) :
              Representative(dup.groups[k]) \notin GetFilesToSkip(dup.groups)
        /\ \A h \in Contents :
              C22_Hashed(h) # {} =>
                  Cardinality(C22_Hashed(h) \ GetFilesToSkip(dup.groups)) = 1

\* the positions of the scanned list, and the sources of a list of mappings
DupIndices == 1..Len(dup.files)
SourcesOf(maps) == [i \in 1..Len(maps) |-> maps[i][1]]

C24_Failed == { i \in DupIndices : dup.content[dup.files[i]] = Unreadable }

\* C24: a file whose hashing fails is in no group, is not in the skip set and
\* gets a destination under both duplicate policies, and the files after it
\* are hashed all the same: every readable file is in the group of its hash.
C24_HashFailureIsolated ==
    (dup.pc = "done" /\ dup.policy # "none") =>
        /\ \A i \in C24_Failed :
              /\ \A k \in 1..Len(dup.groups) :
                    \A j \in 1..Len(dup.groups[k].files) :
                        dup.groups[k].files[j] # dup.files[i]
              /\ dup.files[i] \notin dup.skip
              /\ \E n \in 1..Len(dup.mappings) : dup.mappings[n][1] = dup.files[i]
        /\ \A i \in DupIndices \ C24_Failed :
              \E k \in 1..Len(dup.groups) :
                  /\ dup.groups[k].checksum = dup.content[dup.files[i]]
                  /\ \E j \in 1..Len(dup.groups[k].files) :
                        dup.groups[k].files[j] = dup.files[i]

\* the first scanned file could not be hashed, two later ones share a content
\* and one of them is skipped
C24_Witness ==
    /\ dup.pc = "done"
    /\ dup.policy = "skip"
    /\ 1 \in C24_Failed
    /\ dup.groupsCount >= 1
    /\ dup.skipped >= 1

\* the scanned entries that were hashed, and those among them whose content
\* was seen earlier in the scan
C25_Readable == DupIndices \ C24_Failed
C25_HashAt(i) == dup.content[dup.files[i]]
C25_Repeats ==
    { i \in C25_Readable : \E j \in C25_Readable : j < i /\ C25_HashAt(j) = C25_HashAt(i) }
C25_First(h) == CHOOSE i \in C25_Readable :
                    /\ C25_HashAt(i) = h
                    /\ \A j \in C25_Readable : C25_HashAt(j) = h => i <= j

RECURSIVE C25_SizeSum(_)
C25_SizeSum(S) ==
    IF S = {} THEN 0
    ELSE LET i == CHOOSE x \in S : TRUE
         IN SizeOf(C25_HashAt(i)) + C25_SizeSum(S \ {i})

C26_Widest ==
    IF C25_Readable = {} THEN 0
    ELSE CHOOSE n \in 1..Len(dup.files) :
             /\ \E h \in Contents : Cardinality({ i \in C25_Readable : C25_HashAt(i) = h }) = n
             /\ \A h \in Contents : Cardinality({ i \in C25_Readable : C25_HashAt(i) = h }) <= n

\* the groups of two or more, in order
C26_Reported == SelectSeq(dup.groups, LAMBDA g : Len(g.files) >= 2)

\* C26: the file export_csv writes starts with the header hash, filename,
\* size_bytes, source_1..source_N, N being the member count of the widest
\* group, and goes on with one row per group of two or more, in order: the
\* hash, the leaf name of the first member, the size, the paths of the
\* members in scan order, then empty cells up to the width of the header.
C26_CsvLayout ==
    (dup.pc = "done" /\ dup.policy # "none") =>
        LET rows == dup.csv[1]
        IN /\ dup.csv # None
           /\ Len(rows) = 1 + Len(C26_Reported)
           /\ Len(rows[1]) = 3 + C26_Widest
           /\ rows[1][1] = <<"hash">> /\ rows[1][2] = <<"filename">>
           /\ rows[1][3] = <<"size_bytes">>
           /\ \A n \in 1..C26_Widest : rows[1][3 + n] = <<"source_">> \o Str(n)
           /\ \A k \in 1..Len(C26_Reported) :
                 LET g == C26_Reported[k]
                     row == rows[1 + k]
                 IN /\ Len(row) = Len(rows[1])
                    /\ row[1] = <<g.checksum>>
                    /\ row[2] = Last(g.files[1])
                    /\ row[3] = Str(g.size)
                    /\ \A j \in 1..C26_Widest :
                          row[3 + j] = IF j <= Len(g.files) THEN StrPath(g.files[j]) ELSE <<>>

\* a report with two rows, the second of which is padded
C26_Witness ==
    /\ dup.pc = "done"
    /\ dup.csv # None
    /\ Len(dup.csv[1]) = 3
    /\ dup.csv[1][3][Len(dup.csv[1][1])] = <<>>

----------------------------------------------------------------------------
(* OrbitResult.save_trace / load_trace                                     *)

\* the most file mappings of a result
MaxMappings == 2

\* a character that stands for a byte of a file name that is not UTF-8
\* (os.fsdecode gives a lone surrogate such as '\udcff')
Surrogate == "\\udcff"

\* the paths a result can name
TracePaths == {
    << <<"x">>, <<"photo", ".", "jpg">> >>,
    << <<"/">>, <<"x">>, <<"photo", ".", "jpg">> >>,
    << <<"x">>, <<"ph", Surrogate, "oto", ".", "jpg">> >> }

\* datetime.isoformat(): the microseconds are printed unless they are 0
IsoFormat(t) ==
    Pad(Str(t.sec), 2) \o (IF t.micro = 0 THEN <<>> ELSE <<".">> \o Pad(Str(t.micro), 6))
\* datetime.fromisoformat()
FromIsoFormat(text) ==
    LET dot == LastIndexOf(text, ".")
    IN IF dot = 0 THEN [sec |-> ParseInt(text), micro |-> 0]
       ELSE [sec |-> ParseInt(SubSeq(text, 1, dot - 1)),
             micro |-> ParseInt(SubSeq(text, dot + 1, Len(text)))]

Timestamps == { [sec |-> 7, micro |-> 0], [sec |-> 7, micro |-> 5] }

\* the ProcessingError values and the file mappings of the results
TraceErrors ==
    { [file_path |-> p, error_type |-> <<"path_generation">>, message |-> <<"boom">>,
       timestamp |-> t] : p \in TracePaths, t \in Timestamps }
TraceMappings == { <<p, Append(UnsortedDir, PathName(p))>> : p \in TracePaths }

\* the OrbitResult with these mappings and errors, as Orbit.simulate fills it
ResultOf(maps, errs, mode, strategy) ==
    [total_files_found |-> Len(maps) + Len(errs),
     processed_files |-> Len(maps),
     skipped_files |-> Len(errs),
     created_directories |-> IF maps = <<>> THEN <<>> ELSE <<StrPath(UnsortedDir)>>,
     errors |-> errs,
     file_mappings |-> maps,
     mode |-> mode,
     duplicate_strategy |-> strategy,
     total_size |-> 3 * (Len(maps) + Len(errs)),
     processed_size |-> 3 * Len(maps),
     skipped_size |-> 3 * Len(errs),
     duplicate_size |-> 0]

TraceResults ==
    { ResultOf(maps, errs, mode, strategy) :
        maps \in UNION { [1..n -> TraceMappings] : n \in 0..MaxMappings },
        errs \in UNION { [1..n -> TraceErrors] : n \in 0..1 },
        mode \in {None, Some("normal")},
        strategy \in {None, Some("skip")} }

\* ProcessingError.to_dict / from_dict
ErrorToDict(e) ==
    [file_path |-> StrPath(e.file_path), error_type |-> e.error_type,
     message |-> e.message, timestamp |-> IsoFormat(e.timestamp)]
ErrorFromDict(d) ==
    [file_path |-> ParsePath(d.file_path), error_type |-> d.error_type,
     message |-> d.message, timestamp |-> FromIsoFormat(d.timestamp)]

\* OrbitResult.to_dict / from_dict
ToDict(r) ==
    [r EXCEPT
        !.errors = [i \in 1..Len(r.errors) |-> ErrorToDict(r.errors[i])],
        !.file_mappings = [i \in 1..Len(r.file_mappings) |->
                              <<StrPath(r.file_mappings[i][1]), StrPath(r.file_mappings[i][2])>>]]
FromDict(d) ==
    [d EXCEPT
        !.errors = [i \in 1..Len(d.errors) |-> ErrorFromDict(d.errors[i])],
        !.file_mappings = [i \in 1..Len(d.file_mappings) |->
                              <<ParsePath(d.file_mappings[i][1]), ParsePath(d.file_mappings[i][2])>>]]

\* the strings json.dump has to write
DictStrings(d) ==
    { d.created_directories[i] : i \in 1..Len(d.created_directories) }
    \cup UNION { { d.errors[i].file_path, d.errors[i].error_type, d.errors[i].message,
                   d.errors[i].timestamp } : i \in 1..Len(d.errors) }
    \cup UNION { { d.file_mappings[i][1], d.file_mappings[i][2] } :
                 i \in 1..Len(d.file_mappings) }

\* writing to the file opened with encoding="utf-8" raises UnicodeEncodeError:
\* with ensure_ascii=False a lone surrogate is written as it is
SaveRaises(d) == \E s \in DictStrings(d) : \E i \in 1..Len(s) : s[i] = Surrogate

InitTrace ==
    /\ \E r \in TraceResults :
          trace = [pc |-> "ready", result |-> r, file |-> None, loaded |-> None]
    /\ dupIdle /\ cfgIdle /\ poolIdle
    /\ selIdle
    /\ pathIdle
    /\ execIdle

\* OrbitResult.save_trace(path)
SaveTrace ==
    /\ trace.pc = "ready"
    /\ IF SaveRaises(ToDict(trace.result))
       THEN trace' = [trace EXCEPT !.pc = "save_raised", !.file = Some(PartialLine)]
       ELSE trace' = [trace EXCEPT !.pc = "saved",
                                   !.file = Some(JsonDumps(ToDict(trace.result)))]
    /\ UNCHANGED <<selVars, pathVars, execVars, dup, cfg, pool>>

\* OrbitResult.load_trace(path) of the file save_trace wrote or began
LoadTrace ==
    /\ trace.pc \in {"saved", "save_raised"}
    /\ IF JsonDecodeError(trace.file[1])
       THEN trace' = [trace EXCEPT !.pc = "load_raised"]
       ELSE trace' = [trace EXCEPT !.pc = "loaded",
                                   !.loaded = Some(FromDict(JsonLoads(trace.file[1])))]
    /\ UNCHANGED <<selVars, pathVars, execVars, dup, cfg, pool>>

NextTrace ==
    \/ SaveTrace
    \/ LoadTrace

SpecTrace == InitTrace /\ [][NextTrace]_vars

\* C27: every result can be saved, and the result loaded from the trace has
\* the same counts, the same four size totals, the same ordered (source,
\* destination) pairs, the same errors, the same mode and the same
\* duplicate-strategy tag as the result that was saved.
C27_RoundTrip ==
    /\ trace.pc \notin {"save_raised", "load_raised"}
    /\ trace.pc = "loaded" => trace.loaded = Some(trace.result)

----------------------------------------------------------------------------
(* Orbit.__init__                                                          *)

\* the most source directories given to the constructor
MaxSourceDirs == 2

\* the working directory
Cwd == << <<"/">>, <<"w">> >>

\* the directories given as source or destination: x, x/out, out, out/in
\* and x written as an absolute path
CfgDirs == {
    << <<"x">> >>,
    << <<"x">>, <<"out">> >>,
    << <<"out">> >>,
    << <<"out">>, <<"in">> >>,
    Cwd \o << <<"x">> >> }

\* the values given as mode and as detect_duplicates
CfgModes == Levels \cup {"bogus"}
CfgPolicies == {"none", "all", "skip", "bogus"}

\* Path.resolve(): a relative path is taken from the working directory
Resolve(p) == IF p # <<>> /\ Head(p) = <<"/">> THEN p ELSE Cwd \o p

\* dest.relative_to(src) does not raise: src is dest or an ancestor of dest
IsRelativeToNever(dest, src) == FALSE
IsRelativeTo(dest, src) == IsPrefix(src, dest)

\* Orbit._validate_paths raises ValueError
ValidatePathsRaises(sources, dest, recursive) ==
    \E i \in 1..Len(sources) :
        \/ Resolve(sources[i]) = Resolve(dest)
        \/ recursive /\ IsRelativeTo(Resolve(dest), Resolve(sources[i]))

InitCfg ==
    /\ \E mode \in CfgModes, policy \in CfgPolicies, recursive \in BOOLEAN, dest \in CfgDirs :
       \E sources \in UNION { [1..n -> CfgDirs] : n \in 1..MaxSourceDirs } :
           cfg = [pc |-> "new", mode |-> mode, detect_duplicates |-> policy,
                  recursive |-> recursive, source_dirs |-> sources,
                  destination_dir |-> dest, components |-> FALSE]
    /\ dupIdle /\ traceIdle /\ poolIdle
    /\ selIdle
    /\ pathIdle
    /\ execIdle

\* Orbit(source_dirs, destination_dir, recursive=..., mode=...,
\* detect_duplicates=...): the checks, then the scanner, the extractor, the
\* path generator and the other components
Construct ==
    /\ cfg.pc = "new"
    /\ IF \/ cfg.mode \notin Levels
          \/ cfg.detect_duplicates \notin {"none", "all", "skip"}
          \/ ValidatePathsRaises(cfg.source_dirs, cfg.destination_dir, cfg.recursive)
       THEN cfg' = [cfg EXCEPT !.pc = "raised"]
       ELSE cfg' = [cfg EXCEPT !.pc = "built", !.components = TRUE]
    /\ UNCHANGED <<selVars, pathVars, execVars, dup, trace, pool>>

NextCfg == Construct

SpecCfg == InitCfg /\ [][NextCfg]_vars

\* the relations between a source directory and the destination
C28_Same(src) == Resolve(src) = Resolve(cfg.destination_dir)
C28_DestInside(src) ==
    /\ ~C28_Same(src)
    /\ IsPrefix(Resolve(src), Resolve(cfg.destination_dir))
C28_SourceInside(src) ==
    /\ ~C28_Same(src)
    /\ IsPrefix(Resolve(cfg.destination_dir), Resolve(src))
C28_Sources == { cfg.source_dirs[i] : i \in 1..Len(cfg.source_dirs) }

----------------------------------------------------------------------------
(* Orbit._extract_exif_parallel                                            *)

\* the largest worker count and the longest scan list
MaxWorkers == 3
MaxPoolFiles == 3

\* the scanned files: lists without repetition over four files, two of which
\* carry metadata of their own
PoolFiles == { SourceList[1], SourceList[2], SourceList[4], SourceList[6] }
PoolLists ==
    { s \in UNION { [1..n -> PoolFiles] : n \in 1..MaxPoolFiles } :
          \A i, j \in DOMAIN s : i # j => s[i] # s[j] }

\* "if self.workers and self.workers > 1 and len(image_files) > 1"
UsesPool(workers, files) == workers > 1 /\ Len(files) > 1

\* the result list(pool.map(...)) takes next: map yields the results in the
\* order of its arguments, waiting for each in turn
NextByCompletion(p) == p.completed[Len(p.results) + 1]
NextToCollect(p) == Len(p.results) + 1

InitPool ==
    /\ \E workers \in 0..MaxWorkers, files \in PoolLists :
          pool = [pc |-> "ready", workers |-> workers, files |-> files,
                  started |-> 0, running |-> {}, completed |-> <<>>,
                  results |-> <<>>]
    /\ dupIdle /\ traceIdle /\ cfgIdle
    /\ selIdle
    /\ pathIdle
    /\ execIdle

\* _extract_exif_parallel is called: without a pool the list comprehension
\* extracts file after file; with one, map() submits every file
StartExtract ==
    /\ pool.pc = "ready"
    /\ IF UsesPool(pool.workers, pool.files)
       THEN pool' = [pool EXCEPT !.pc = "pool"]
       ELSE pool' = [pool EXCEPT !.pc = "done",
                                 !.results = [i \in 1..Len(pool.files) |-> ExifOf(pool.files[i])]]
    /\ UNCHANGED <<selVars, pathVars, execVars, dup, trace, cfg>>

\* an idle worker takes the next file of the queue
WorkerTake ==
    /\ pool.pc = "pool"
    /\ pool.started < Len(pool.files)
    /\ Cardinality(pool.running) < pool.workers
    /\ pool' = [pool EXCEPT !.started = @ + 1, !.running = @ \cup {pool.started + 1}]
    /\ UNCHANGED <<selVars, pathVars, execVars, dup, trace, cfg>>

\* a worker returns from exif_extractor.extract: its future holds the result
WorkerFinish(i) ==
    /\ pool.pc = "pool"
    /\ i \in pool.running
    /\ pool' = [pool EXCEPT !.running = @ \ {i}, !.completed = Append(@, i)]
    /\ UNCHANGED <<selVars, pathVars, execVars, dup, trace, cfg>>

\* list() receives the next result from map()
Collect ==
    /\ pool.pc = "pool"
    /\ Len(pool.results) < Len(pool.files)
    /\ Len(pool.results) < Len(pool.completed)
    /\ \E k \in 1..Len(pool.completed) : pool.completed[k] = NextToCollect(pool)
    /\ pool' = [pool EXCEPT !.results = Append(@, ExifOf(pool.files[NextToCollect(pool)]))]
    /\ UNCHANGED <<selVars, pathVars, execVars, dup, trace, cfg>>

\* every result is in: the pool shuts down and the list is returned
ReturnResults ==
    /\ pool.pc = "pool"
    /\ Len(pool.results) = Len(pool.files)
    /\ pool' = [pool EXCEPT !.pc = "done"]
    /\ UNCHANGED <<selVars, pathVars, execVars, dup, trace, cfg>>

NextPool ==
    \/ StartExtract
    \/ WorkerTake
    \/ \E i \in 1..MaxPoolFiles : WorkerFinish(i)
    \/ Collect
    \/ ReturnResults

SpecPool == InitPool /\ [][NextPool]_vars

\* C29: whatever the worker count and the order in which the workers finish,
\* the i-th result collected is the metadata of the i-th scanned file, so the
\* list returned pairs every file with its own metadata, in scan order, as
\* the sequential run does.
C29_ResultsInScanOrder ==
    /\ pool.pc \in {"pool", "done"} =>
          \A k \in 1..Len(pool.results) : pool.results[k] = ExifOf(pool.files[k])
    /\ pool.pc = "done" => Len(pool.results) = Len(pool.files)

\* the pool returned the results of three files although the worker of the
\* last file finished first
C29_Witness ==
    /\ pool.pc = "done"
    /\ pool.workers >= 2
    /\ Len(pool.files) >= 3
    /\ pool.completed[1] = Len(pool.files)
    /\ ExifOf(pool.files[1]) # ExifOf(pool.files[Len(pool.files)])

----------------------------------------------------------------------------
(* The distinctive-ancestor rule                                           *)

\* the files prepare() recorded under the leaf name of the file of the call
C30_ConflictSet ==
    LET entries30 == ConflictsOf(pending, PathName(lastSrc[1]))
    IN [i \in 1..Len(entries30) |-> entries30[i][1]]

\* the d-th parent segment of f, counted from the immediate parent (d = 1)
\* upward; the empty value when f has no such segment
C30_Segment(f, d) ==
    LET parent == PathParent(f)
    IN IF d <= Len(parent) THEN parent[Len(parent) - d + 1] ELSE <<>>

\* the depths, among those of the file of the call, at which the segments of
\* the conflict set are not all equal
C30_Differing ==
    { d \in 1..Len(PathParent(lastSrc[1])) :
          \E i, j \in 1..Len(C30_ConflictSet) :
              C30_Segment(C30_ConflictSet[i], d) # C30_Segment(C30_ConflictSet[j], d) }

\* the name the rule gives the file of the call
C30_Name ==
    LET src == lastSrc[1]
        first == CHOOSE d \in C30_Differing : \A e \in C30_Differing : d <= e
    IN IF C30_Differing # {}
       THEN PathStem(src) \o <<"_">> \o C30_Segment(src, first) \o PathSuffix(src)
       ELSE PathStem(src) \o <<"_", "1">> \o PathSuffix(src)

----------------------------------------------------------------------------
(* Conflict detection by leaf name                                         *)

\* the mappings Orbit.simulate has just assigned: the run has not touched
\* the disk yet
C31_JustAssigned == pc = "next" /\ idx = 1

\* the other files of the batch that bear the leaf name of src
C31_Sharing(src) ==
    { mappings[j][1] : j \in { n \in 1..Len(mappings) :
                                  /\ mappings[n][1] # src
                                  /\ PathName(mappings[n][1]) = PathName(src) } }

\* the path of src under its original leaf name
C31_Original(src) == JoinPath(GetDestDir(ExecLevel, ExifOf(src)), PathName(src))

\* C31: of the files of the batch, one whose leaf name no other file shares
\* keeps its leaf name when that path is free on disk, and one whose leaf
\* name another file shares is given a different name, whatever the
\* destination directories of the two.
C31_ConflictByLeafName ==
    C31_JustAssigned =>
        \A i \in 1..Len(mappings) :
            LET src == mappings[i][1]
                dst == mappings[i][2]
            IN /\ (C31_Sharing(src) = {} /\ ~Exists(C31_Original(src), DOMAIN fs))
                      => dst = C31_Original(src)
               /\ C31_Sharing(src) # {} => dst # C31_Original(src)


----------------------------------------------------------------------------
(* Claims on the counts of a run                                           *)

\* the first half of C40 alone: every mapping is counted once
C40_EveryMappingCounted ==
    (pc = "idle" /\ runs >= 1) => processed + skipped = Len(mappings)

\* C40: FileExecutor.execute counts every mapping exactly once: when it
\* returns, processed + skipped is the number of mappings and the number of
\* errors is at most skipped.
C40_CountConservation ==
    (pc = "idle" /\ runs >= 1) =>
        /\ processed + skipped = Len(mappings)
        /\ Len(errors) <= skipped


----------------------------------------------------------------------------
(* Claims on the journal's appends                                         *)

\* C33: a record appended by Journal.record is recovered by the Journal.load
\* that follows, whatever the journal file held before the append, a
\* truncated last line without a newline included.
C33_AppendedRecordRecovered ==
    [][(pc = "record" /\ hasJournal /\ pc' = "count")
       => \E i \in 1..Len(LoadEntries(journalFile')) :
             LoadEntries(journalFile')[i] = JournalEntry(CurSource, CurDest, opMode)]_vars


----------------------------------------------------------------------------
(* Claims on what a run leaves on disk                                     *)

\* the first run of execute() is under way or has returned, and no operation
\* of the disk has failed
C36_FirstRun ==
    /\ runs = 1
    /\ faults = 0
    /\ pc \in {"next", "verify", "record", "count", "idle"}

\* the content of the source file f is at the destination of one of its mappings
C36_AtDestination(f) ==
    \E i \in 1..Len(mappings) :
        /\ mappings[i][1] = f
        /\ mappings[i][2] \in DOMAIN fs
        /\ fs[mappings[i][2]] = ContentOf(f)

\* C36: execution never loses data, for every verify setting: in copy mode
\* every source file still exists unchanged, and in move mode the content of
\* every source file of the batch is at its source path or at its mapped
\* destination path.
C36_NoDataLost ==
    C36_FirstRun =>
        \A i \in 1..Len(mappings) :
            LET f == mappings[i][1]
            IN \/ f \in DOMAIN fs /\ fs[f] = ContentOf(f)
               \/ opMode = "move" /\ C36_AtDestination(f)

\* the same, for runs without verification whose mappings have pairwise
\* distinct destinations
C36_NoDataLostUnverified ==
    (/\ C36_FirstRun
     /\ ~verify
     /\ \A i, j \in 1..Len(mappings) :
           mappings[i][2] = mappings[j][2] => mappings[i][1] = mappings[j][1])
    => \A i \in 1..Len(mappings) :
           LET f == mappings[i][1]
           IN \/ f \in DOMAIN fs /\ fs[f] = ContentOf(f)
              \/ opMode = "move" /\ C36_AtDestination(f)


\* the disk before the first run
C37_OriginalDisk == [f \in ExecFiles |-> ContentOf(f)]

\* a journaled run in move mode returned, the undo that followed it has
\* returned, and no operation of the disk has failed
C37_MovedAndUndone ==
    /\ pc = "undone"
    /\ runs = 1
    /\ faults = 0
    /\ opMode = "move"
    /\ hasJournal

\* C37: a journaled execute() in move mode followed by undo leaves every
\* original source file back at its path with its content, and none of the
\* run's destination files.
C37_MoveUndoRoundTrip ==
    C37_MovedAndUndone => fs = C37_OriginalDisk

\* the same, for runs without verification whose mappings have pairwise
\* distinct destinations
C37_RoundTripUnverified ==
    (/\ C37_MovedAndUndone
     /\ ~verify
     /\ \A i, j \in 1..Len(mappings) :
           mappings[i][2] = mappings[j][2] => mappings[i][1] = mappings[j][1])
    => fs = C37_OriginalDisk


\* the destinations and the sources of the mappings of the run
C38_Destinations == { mappings[i][2] : i \in 1..Len(mappings) }
C38_Sources == { mappings[i][1] : i \in 1..Len(mappings) }

\* execute() has just assigned the destinations of a run
C38_Assigning == AtRest /\ pc' = "next"

\* the executor's loop is at work
C38_Running == pc \in {"next", "verify", "record", "count"}

\* the step leaves the file p of the disk as it is
C38_Kept(p) == p \in DOMAIN fs' /\ fs'[p] = fs[p]

----------------------------------------------------------------------------
(* The shape of a generated path                                           *)

\* the path of the call lies directly in the directory computed for the
\* file, keeps the file's extension and starts with the file's stem
C39_Shaped ==
    /\ PathParent(lastRet[1]) = GetDestDir(level, lastExif[1])
    /\ PathSuffix(lastRet[1]) = PathSuffix(lastSrc[1])
    /\ IsPrefix(PathStem(lastSrc[1]), PathName(lastRet[1]))

\* C39: every path generate() computes lies directly in the directory
\* computed for the file, keeps the source file's extension and has a leaf
\* name that starts with the source file's stem, for relative and absolute
\* source paths and for conflict sets at different depths.
C39_PathShape ==
    (lastSrc # None /\ ~lastCached) => C39_Shaped

\* the same, for relative source paths
C39_RelativePathShape ==
    (lastSrc # None /\ ~lastCached /\ Head(lastSrc[1]) # <<"/">>) => C39_Shaped


----------------------------------------------------------------------------
(* Orbit.simulate and Orbit.execute, step by step                          *)

\* the source_dirs of the runs, and the order in which each is listed
PipeDirs == { <<DirX>>, <<DirX, DirY>>, <<DirX, DirX>> }
PipeListing == [d \in DupDirs |-> SelectSeq(DupFileList, LAMBDA f : PathParent(f) = d)]
\* what the files hold
PipeContents == { c \in [DupFiles -> Contents] : c[DupFileList[1]] = "h1" }

\* the calls: simulate(report), execute(mode, resume) on an Orbit built with verify
PipeCalls ==
    { [name |-> "simulate", opMode |-> "copy", resume |-> FALSE, verify |-> FALSE,
       report |-> r] : r \in BOOLEAN }
    \cup { [name |-> "execute", opMode |-> m, resume |-> r, verify |-> v, report |-> FALSE] :
             m \in {"copy", "move"}, r \in BOOLEAN, v \in BOOLEAN }

\* the files the run itself keeps under the destination
CsvPath == Append(DestinationDir, <<".orbit_duplicates", ".", "csv">>)
TracePath == Append(DestinationDir, <<".orbit_trace", ".", "json">>)
ReportPath == Append(DestinationDir, <<"orbit_simulation_report", ".", "html">>)
JournalPath == Append(DestinationDir, <<".orbit_journal", ".", "jsonl">>)

InitPipe ==
    /\ \E dirs \in PipeDirs, content \in PipeContents, policy \in Policies, call \in PipeCalls :
           dup = [pc |-> "start", call |-> call.name, opMode |-> call.opMode,
                  resume |-> call.resume, verify |-> call.verify, report |-> call.report,
                  files |-> ScanDirs(dirs, PipeListing), content |-> content,
                  policy |-> policy, detected |-> FALSE, skip |-> {},
                  prepareCalls |-> <<>>, generated |-> <<>>, pending |-> EmptyMap,
                  resolved |-> EmptyMap, mappings |-> <<>>, i |-> 1, simSkipped |-> 0,
                  disk |-> DupFiles, j |-> 1, ops |-> <<>>, cb |-> <<>>,
                  processed |-> 0, skipped |-> 0, errors |-> <<>>]
    /\ traceIdle /\ cfgIdle /\ poolIdle
    /\ selIdle
    /\ pathIdle
    /\ execIdle

\* "4. Detect duplicates if enabled": the scan, the skip set, the CSV
SimulateDetect ==
    /\ dup.pc = "start"
    /\ LET detect == dup.policy # "none"
           groups == IF detect THEN DupScan(dup.files, dup.content) ELSE <<>>
       IN dup' = [dup EXCEPT
                    !.pc = "detected",
                    !.detected = TRUE,
                    !.skip = FilesToSkip(dup.policy, groups),
                    !.disk = IF detect THEN @ \cup {CsvPath} ELSE @]
    /\ UNCHANGED <<selVars, pathVars, execVars, trace, cfg, pool>>

\* the batch handed to prepare(): the scanned files outside the skip set
PreparedBatchAll(files, skip) == files
PreparedBatch(files, skip) == SelectSeq(files, LAMBDA f : f \notin skip)

\* "5. Prepare path generator with all files"
SimulatePrepare ==
    /\ dup.pc = "detected"
    /\ LET b == PreparedBatch(dup.files, dup.skip)
       IN dup' = [dup EXCEPT
                    !.pc = "generating",
                    !.prepareCalls = Append(@, b),
                    !.pending = PendingOf(b, ExecLevel),
                    !.resolved = EmptyMap]
    /\ UNCHANGED <<selVars, pathVars, execVars, trace, cfg, pool>>

\* one turn of the loop "6. Generate destination paths"
SimulateGenerate ==
    /\ dup.pc = "generating"
    /\ dup.i <= Len(dup.files)
    /\ LET f == dup.files[dup.i]
           ret == GenerateResult(f, ExifOf(f), ExecLevel, dup.pending, dup.resolved, dup.disk)
       IN IF f \in dup.skip
          THEN dup' = [dup EXCEPT !.simSkipped = @ + 1, !.i = @ + 1]
          ELSE dup' = [dup EXCEPT
                         !.generated = Append(@, f),
                         !.resolved = MapPut(@, f, ret),
                         !.mappings = Append(@, <<f, ret>>),
                         !.i = @ + 1]
    /\ UNCHANGED <<selVars, pathVars, execVars, trace, cfg, pool>>

\* simulate() returns to its caller; execute() goes on to the executor
ExecutesAlways(call) == TRUE
ExecutesAfterSimulate(call) == call = "execute"

\* "7. Save trace", "8. Optional HTML report", and the return of simulate()
SimulateFinish ==
    /\ dup.pc = "generating"
    /\ dup.i > Len(dup.files)
    /\ dup' = [dup EXCEPT
                 !.pc = IF ExecutesAfterSimulate(dup.call) THEN "executing" ELSE "done",
                 !.disk = @ \cup {TracePath} \cup (IF dup.report THEN {ReportPath} ELSE {})]
    /\ UNCHANGED <<selVars, pathVars, execVars, trace, cfg, pool>>

\* progress_callback(i + 1, total, str(source)), i counting from 0
ProgressCallbackZeroBased(cbs, i, total, source) == Append(cbs, <<i, total, StrPath(source)>>)
ProgressCallback(cbs, i, total, source) == Append(cbs, <<i + 1, total, StrPath(source)>>)

\* what one turn of the executor's loop can come to
Outcomes == {"resumed", "done", "mismatch", "unlink_raised", "raised"}

\* one turn of FileExecutor.execute's loop over file_mappings
ExecuteMapping(outcome) ==
    /\ dup.pc = "executing"
    /\ dup.j <= Len(dup.mappings)
    /\ LET source == dup.mappings[dup.j][1]
           destination == dup.mappings[dup.j][2]
           total == Len(dup.mappings)
           called == ProgressCallback(dup.cb, dup.j - 1, total, source)
           op == <<dup.opMode, source, destination>>
           after == IF dup.opMode = "copy" THEN dup.disk \cup {destination}
                    ELSE (dup.disk \ {source}) \cup {destination}
       IN CASE outcome = "resumed" ->
                 \* "if str(source) in already_processed"
                 /\ dup.resume
                 /\ dup' = [dup EXCEPT !.skipped = @ + 1, !.cb = called, !.j = @ + 1]
            [] outcome = "done" ->
                 /\ source \in dup.disk
                 /\ dup' = [dup EXCEPT
                              !.ops = Append(@, op),
                              !.disk = after \cup (IF dup.resume THEN {JournalPath} ELSE {}),
                              !.processed = @ + 1,
                              !.cb = called,
                              !.j = @ + 1]
            [] outcome = "mismatch" ->
                 /\ dup.verify
                 /\ source \in dup.disk
                 /\ dup' = [dup EXCEPT
                              !.ops = Append(@, op),
                              !.disk = after \ {destination},
                              !.errors = Append(@, <<source, "checksum">>),
                              !.skipped = @ + 1,
                              !.cb = called,
                              !.j = @ + 1]
            [] outcome = "unlink_raised" ->
                 /\ dup.verify
                 /\ source \in dup.disk
                 /\ dup' = [dup EXCEPT
                              !.ops = Append(@, op),
                              !.disk = after,
                              !.errors = Append(Append(@, <<source, "checksum">>),
                                                <<source, "execution">>),
                              !.skipped = @ + 1,
                              !.cb = called,
                              !.j = @ + 1]
            [] outcome = "raised" ->
                 /\ dup' = [dup EXCEPT
                              !.ops = Append(@, op),
                              !.errors = Append(@, <<source, "execution">>),
                              !.skipped = @ + 1,
                              !.cb = called,
                              !.j = @ + 1]
    /\ UNCHANGED <<selVars, pathVars, execVars, trace, cfg, pool>>

\* "return processed, skipped, errors" and the result of Orbit.execute
ExecuteReturn ==
    /\ dup.pc = "executing"
    /\ dup.j > Len(dup.mappings)
    /\ dup' = [dup EXCEPT !.pc = "done"]
    /\ UNCHANGED <<selVars, pathVars, execVars, trace, cfg, pool>>

NextPipe ==
    \/ SimulateDetect
    \/ SimulatePrepare
    \/ SimulateGenerate
    \/ SimulateFinish
    \/ \E outcome \in Outcomes : ExecuteMapping(outcome)
    \/ ExecuteReturn

SpecPipe == InitPipe /\ [][NextPipe]_vars


----------------------------------------------------------------------------
(* Claims on the order of the phases                                       *)

\* the scanned files outside the skip set, in scan order
C32_NonSkipped == SelectSeq(dup.files, LAMBDA f : f \notin dup.skip)

\* C32: in Orbit.simulate, prepare() is called once, with the whole
\* non-skipped batch, before the first generate() call; in Orbit.execute the
\* duplicate scan and the path assignment of every file are over before the
\* first copy or move starts.
C32_TwoPhaseOrdering ==
    [][/\ dup'.generated # dup.generated =>
             /\ dup.prepareCalls = <<C32_NonSkipped>>
             /\ dup'.prepareCalls = dup.prepareCalls
       /\ dup'.ops # dup.ops =>
             /\ dup.detected
             /\ dup.i > Len(dup.files)
             /\ dup.generated = C32_NonSkipped
             /\ Len(dup.mappings) + dup.simSkipped = Len(dup.files)
             /\ dup'.mappings = dup.mappings
             /\ dup'.generated = dup.generated
             /\ dup'.prepareCalls = dup.prepareCalls]_vars

\* an execute() under the skip policy left a duplicate out of the batch and
\* has copied or moved a file
C32_Witness ==
    /\ dup.pc = "executing"
    /\ dup.skip # {}
    /\ Len(dup.ops) >= 1
    /\ Len(dup.generated) >= 2
    /\ Len(dup.prepareCalls) = 1

\* C34: FileExecutor.execute calls the progress callback once per mapping, in
\* list order, with (i+1, total, source), whatever the turn came to: the
\* reported count goes from 1 to total by steps of one.
C34_CallbackOncePerMapping ==
    dup.pc \in {"executing", "done"} =>
        dup.cb = [k \in 1..(dup.j - 1) |->
                     <<k, Len(dup.mappings), StrPath(dup.mappings[k][1])>>]

\* the outcomes of the turns of the run so far
C34_Came(what) == \E k \in 1..Len(dup.errors) : dup.errors[k][2] = what

\* a run returned after a resume-skip, a success, a checksum mismatch and an
\* I/O error
C34_Witness ==
    /\ dup.pc = "done" /\ dup.call = "execute"
    /\ Len(dup.mappings) = 4
    /\ Len(dup.cb) = 4
    /\ dup.processed >= 1
    /\ C34_Came("checksum")
    /\ C34_Came("execution")
    /\ dup.skipped > Cardinality({ k \in 1..Len(dup.errors) : dup.errors[k][2] = "checksum" })
                     + Cardinality({ k \in 1..Len(dup.errors) : dup.errors[k][2] = "execution" })

\* the files simulate() may write
C35_Bookkeeping == {CsvPath, TracePath, ReportPath}

\* C35: Orbit.simulate copies, moves, changes or deletes no source file,
\* creates no file at an assigned destination, and never creates the journal
\* file; the only files it writes are the trace, the duplicate CSV and the
\* report, under the destination root.
C35_DryRun ==
    dup.call = "simulate" =>
        /\ dup.ops = <<>>
        /\ DupFiles \subseteq dup.disk
        /\ \A k \in 1..Len(dup.mappings) : dup.mappings[k][2] \notin dup.disk
        /\ JournalPath \notin dup.disk
        /\ dup.disk \ DupFiles \subseteq C35_Bookkeeping
        /\ \A p \in dup.disk \ DupFiles : IsPrefix(DestinationDir, p)
        /\ dup.pc = "done" => TracePath \in dup.disk

\* a simulation with duplicate detection and a report returned
C35_Witness ==
    /\ dup.pc = "done" /\ dup.call = "simulate"
    /\ Len(dup.mappings) >= 2
    /\ dup.disk \ DupFiles = C35_Bookkeeping

====
